---- MODULE Spec2Model ----
(***************************************************************************)
(* A model of the fastjson parser (parser.go), its strict validator        *)
(* (validate.go) and the streaming scanner.                                *)
(*                                                                         *)
(* Go strings and byte slices are sequences of byte values (0..255).  A Go *)
(* string that aliases the parser's working buffer p.b is a view           *)
(* [off, len] into that buffer.  A *Value is the 1-based index of its slot *)
(* in the cache c.vs; the nil pointer is 0.                                *)
(***************************************************************************)
EXTENDS Integers, Sequences, FiniteSets, TLC

VARIABLES
    input,   \* the caller's string handed to Parse / Validate / Scanner.Init
    fed,     \* how many chunks the caller has put into input
    toks,    \* which set of chunks the caller composes its input from
    pc,      \* position of the caller: which operation ran last
    b,       \* the array behind Parser.b, which holds the parsed string
    c,       \* Parser.c: the cache of JSON values
    ret,     \* what the last Parse returned: value, error, or a panic
    dst,     \* the value last marshaled and the bytes MarshalTo produced
    aux,     \* the last read operation (Type, Get, Visit) and its result
    old,     \* the parser as it was when the caller called Parse again
    call,    \* the calls of parseValue in progress, when Parse runs in steps
    sc       \* the Scanner: its cursor, its error and its current value

vars == <<input, fed, toks, pc, b, c, ret, dst, aux, old, call, sc>>

------------------------------------------------------------------------------
(* Bytes *)

Ch == [ lbrace |-> 123, rbrace |-> 125, lbrack |-> 91, rbrack |-> 93,
        quote |-> 34, backslash |-> 92, colon |-> 58, comma |-> 44,
        slash |-> 47, minus |-> 45, plus |-> 43, dot |-> 46,
        zero |-> 48, nine |-> 57, e |-> 101, E |-> 69,
        t |-> 116, f |-> 102, n |-> 110, u |-> 117, bb |-> 98, r |-> 114,
        space |-> 32, tab |-> 9, lf |-> 10, cr |-> 13, bs |-> 8, ff |-> 12 ]

\* The literals of the grammar, as byte strings.
StrTrue  == <<116, 114, 117, 101>>
StrFalse == <<102, 97, 108, 115, 101>>
StrNull  == <<110, 117, 108, 108>>
StrNan   == <<110, 97, 110>>
StrInf   == <<105, 110, 102>>

\* Go's s[i] and s[i:j] on a zero-indexed string.
At(s, i) == s[i + 1]
Slice(s, i, j) == SubSeq(s, i + 1, j)
SliceFrom(s, i) == SubSeq(s, i + 1, Len(s))

Min(S) == CHOOSE x \in S : \A y \in S : x <= y

\* strings.IndexByte(s[from:], ch): relative index of the first ch, or -1.
IndexByteFrom(s, from, ch) ==
    LET idx == {i \in from .. Len(s) - 1 : At(s, i) = ch}
    IN  IF idx = {} THEN -1 ELSE Min(idx) - from

ToLower(ch) == IF ch >= 65 /\ ch <= 90 THEN ch + 32 ELSE ch

\* strings.EqualFold restricted to byte strings with an ASCII pattern.
EqualFold(xs, pat) ==
    /\ Len(xs) = Len(pat)
    /\ \A i \in 1 .. Len(xs) : ToLower(xs[i]) = ToLower(pat[i])

\* A string aliasing the working buffer.
View(off, len) == [off |-> off, len |-> len]
EmptyView == View(0, 0)
Bytes(buf, vw) == Slice(buf, vw.off, vw.off + vw.len)

------------------------------------------------------------------------------
(* Types *)

TypeNull      == 0
TypeObject    == 1
TypeArray     == 2
TypeString    == 3
TypeNumber    == 4
TypeTrue      == 5
TypeFalse     == 6
typeRawString == 7

MaxDepth == 300

Nil == 0

ZeroObject == [kvs |-> <<>>, len |-> 0, keysUnescaped |-> FALSE]
ZeroValue  == [o |-> ZeroObject, a |-> <<>>, s |-> EmptyView, t |-> TypeNull,
               do |-> 0, dl |-> 0]
ZeroKV     == [k |-> EmptyView, v |-> Nil]

valueTrue  == [ZeroValue EXCEPT !.t = TypeTrue, !.dl = 4]
valueFalse == [ZeroValue EXCEPT !.t = TypeFalse, !.dl = 5]
valueNull  == [ZeroValue EXCEPT !.t = TypeNull, !.dl = 4]

------------------------------------------------------------------------------
(* The cache *)

\* c.vs[:len(c.vs)] are the slots in use, the rest of vs is spare capacity
\* that keeps whatever an earlier parse left there.
ZeroCache == [vs |-> <<>>, len |-> 0]

\* A reset that leaves the slots in use.
cacheReset_Keep(cc) == cc

cacheReset(cc) == [cc EXCEPT !.len = 0]

\* A getValue that takes two slots for one value.
cacheGetValue_Two(cc) ==
    [vs |-> SubSeq(cc.vs, 1, cc.len) \o <<ZeroValue, ZeroValue>>,
     len |-> cc.len + 2]

cacheGetValue(cc) ==
    IF Len(cc.vs) > cc.len
    THEN [cc EXCEPT !.len = cc.len + 1]
    ELSE [vs |-> Append(cc.vs, ZeroValue), len |-> cc.len + 1]

objectReset(o) == [o EXCEPT !.len = 0, !.keysUnescaped = FALSE]

objectGetKV(o) ==
    IF Len(o.kvs) > o.len
    THEN [o EXCEPT !.len = o.len + 1]
    ELSE [o EXCEPT !.kvs = Append(o.kvs, ZeroKV), !.len = o.len + 1]

------------------------------------------------------------------------------
(* Tokenizer primitives *)

IsWS(ch) == ch = 32 \/ ch = 10 \/ ch = 9 \/ ch = 13

skipWSSlow(s) ==
    IF Len(s) = 0 \/ ~IsWS(At(s, 0))
    THEN 0
    ELSE LET idx == {i \in 1 .. Len(s) - 1 : ~IsWS(At(s, i))}
         IN  IF idx = {} THEN Len(s) ELSE Min(idx)

\* A skipWS that skips nothing.
skipWS_None(s) == 0

skipWS(s) ==
    IF Len(s) = 0 \/ At(s, 0) > 32 THEN 0 ELSE skipWSSlow(s)

RECURSIVE parseRawStringSlow(_, _, _, _)
parseRawStringSlow(s, start_offset, offset, n) ==
    LET ss_off == start_offset + 1
        i == Min({j \in 0 .. n - 1 :
                    \A k \in j .. n - 2 : At(s, offset + k) = Ch.backslash})
    IN  IF (n - i) % 2 = 0
        THEN [str |-> View(ss_off, offset - ss_off + n),
              n |-> offset - start_offset + n + 1, err |-> FALSE]
        ELSE LET offset2 == offset + n + 1
                 n2 == IndexByteFrom(s, offset2, Ch.quote)
             IN  IF n2 < 0
                 THEN [str |-> View(ss_off, Len(s) - ss_off),
                       n |-> Len(s) - start_offset, err |-> TRUE]
                 ELSE IF n2 = 0 \/ At(s, offset2 + n2 - 1) # Ch.backslash
                 THEN [str |-> View(ss_off, offset2 - ss_off + n2),
                       n |-> offset2 - start_offset + n2 + 1, err |-> FALSE]
                 ELSE parseRawStringSlow(s, start_offset, offset2, n2)

parseRawString(s, start_offset) ==
    LET offset == start_offset + 1
    IN  IF offset >= Len(s)
        THEN [str |-> EmptyView, n |-> 1, err |-> TRUE]
        ELSE LET n == IndexByteFrom(s, offset, Ch.quote)
             IN  IF n < 0
                 THEN [str |-> EmptyView, n |-> Len(s) - start_offset,
                       err |-> TRUE]
                 ELSE IF n = 0 \/ At(s, offset + n - 1) # Ch.backslash
                 THEN [str |-> View(offset, n), n |-> n + 1 + 1,
                       err |-> FALSE]
                 ELSE parseRawStringSlow(s, start_offset, offset, n)

parseRawKey(s, offset) ==
    LET idx == {i \in offset + 1 .. Len(s) - 1 :
                    At(s, i) = Ch.quote \/ At(s, i) = Ch.backslash}
    IN  IF idx = {}
        THEN [str |-> View(0, Len(s)), n |-> Len(s) - offset, err |-> TRUE]
        ELSE LET i == Min(idx)
             IN  IF At(s, i) = Ch.quote
                 THEN [str |-> View(offset + 1, i - offset - 1),
                       n |-> i - offset + 1, err |-> FALSE]
                 ELSE parseRawString(s, offset)

IsNumberChar(ch) ==
    \/ (ch >= Ch.zero /\ ch <= Ch.nine)
    \/ ch = Ch.dot \/ ch = Ch.minus \/ ch = Ch.e \/ ch = Ch.E \/ ch = Ch.plus

parseRawNumber(s, start_offset) ==
    LET stop == {k \in start_offset .. Len(s) - 1 : ~IsNumberChar(At(s, k))}
    IN  IF stop = {}
        THEN [str |-> View(0, Len(s)), n |-> Len(s) - start_offset,
              err |-> FALSE]
        ELSE LET offset == Min(stop)
                 i == offset - start_offset
             IN  IF i = 0 \/ (i = 1 /\ (At(s, offset - 1) = Ch.minus
                                         \/ At(s, offset - 1) = Ch.plus))
                 THEN IF Len(s) - offset >= 3
                         /\ LET xs == Slice(s, offset, offset + 3)
                            IN  EqualFold(xs, StrInf) \/ EqualFold(xs, StrNan)
                      THEN [str |-> View(start_offset, offset - start_offset + 3),
                            n |-> offset - start_offset + 3, err |-> FALSE]
                      ELSE [str |-> EmptyView, n |-> 0, err |-> TRUE]
                 ELSE [str |-> View(start_offset, offset - start_offset),
                       n |-> offset - start_offset, err |-> FALSE]

------------------------------------------------------------------------------
(* The permissive parser *)

\* What parseValue returns: (v, s[tail:], err), or a run-time panic raised
\* by an out-of-range slice expression.  c is the cache after the call.
Ret(v, tail, err, cc) ==
    [v |-> v, tail |-> tail, err |-> err, panic |-> FALSE, c |-> cc]
\* What parseArray and parseObject return: (v, n, err), or a panic.
RetN(v, n, err, cc) ==
    [v |-> v, n |-> n, err |-> err, panic |-> FALSE, c |-> cc]
Panic(cc) ==
    [v |-> Nil, tail |-> 0, n |-> 0, err |-> FALSE, panic |-> TRUE, c |-> cc]

\* return v, s[k:], err -- the slice expression panics when k > len(s).
RetTail(s, v, k, err, cc) ==
    IF k > Len(s) \/ k < 0 THEN Panic(cc) ELSE Ret(v, k, err, cc)

\* v := c.getValue(); v.t = t; v.s = str; v.do = do; v.dl = dl
NewValue(cc, t, str, do, dl) ==
    [cacheGetValue(cc) EXCEPT !.vs[cc.len + 1] =
        [@ EXCEPT !.t = t, !.s = str, !.do = do, !.dl = dl]]

\* v := c.getValue(); v.t = t; v.do = do; v.dl = dl
NewLiteral(cc, t, do, dl) ==
    [cacheGetValue(cc) EXCEPT !.vs[cc.len + 1] =
        [@ EXCEPT !.t = t, !.do = do, !.dl = dl]]

\* return v, s[k:], nil for the value v that was just taken from the cache.
RetNew(s, k, cc) == RetTail(s, cc.len, k, FALSE, cc)

HasPrefixAt(s, offset, lit) ==
    /\ Len(s) - offset >= Len(lit)
    /\ Slice(s, offset, offset + Len(lit)) = lit

\* offset += skipWS(s[offset:])
SkipFrom(s, offset) == offset + skipWS(SliceFrom(s, offset))

\* s[offset:] panics when offset > len(s).
SliceOK(s, offset) == offset >= 0 /\ offset <= Len(s)

RECURSIVE parseValue(_, _, _, _)
RECURSIVE parseArray(_, _, _, _)
RECURSIVE parseArrayLoop(_, _, _, _, _, _)
RECURSIVE parseArrayElem(_, _, _, _, _, _)
RECURSIVE parseArrayNext(_, _, _, _, _, _)
RECURSIVE parseObject(_, _, _, _)
RECURSIVE parseObjectLoop(_, _, _, _, _, _)
RECURSIVE parseObjectKey(_, _, _, _, _, _, _)
RECURSIVE parseObjectValue(_, _, _, _, _, _)
RECURSIVE parseObjectNext(_, _, _, _, _, _)

\* parseValue after parseObject / parseArray returned r == (v, n, err).
parseValueNested(s, offset, r) ==
    IF r.panic THEN r
    ELSE IF r.err THEN RetTail(s, Nil, offset + r.n, TRUE, r.c)
    ELSE RetTail(s, r.v, offset + r.n, FALSE, r.c)

\* parseValue after parseRawString returned r == (ss, slen, err).
parseValueString(s, offset, cc, r) ==
    IF r.err THEN RetTail(s, Nil, offset + r.n, TRUE, cc)
    ELSE RetNew(s, offset + r.n,
                NewValue(cc, typeRawString, r.str, offset, r.n))

\* parseValue after parseRawNumber returned r == (ns, nlen, err) and
\* offset += nlen was done: v.do is assigned the advanced offset.
parseValueNumber(s, offset, cc, r) ==
    IF r.err THEN RetTail(s, Nil, offset, TRUE, cc)
    ELSE RetNew(s, offset, NewValue(cc, TypeNumber, r.str, offset, r.n))

\* A depth check made before depth++.
depthExceeded_Late(depth) == depth > MaxDepth

\* depth++; if depth > MaxDepth
depthExceeded(depth) == depth + 1 > MaxDepth

parseValue(s, offset, cc, depth) ==
    IF offset >= Len(s) THEN RetTail(s, Nil, offset, TRUE, cc)
    ELSE IF depthExceeded(depth) THEN Ret(Nil, 0, TRUE, cc)
    ELSE IF At(s, offset) = Ch.lbrace
    THEN parseValueNested(s, offset, parseObject(s, offset, cc, depth + 1))
    ELSE IF At(s, offset) = Ch.lbrack
    THEN parseValueNested(s, offset, parseArray(s, offset, cc, depth + 1))
    ELSE IF At(s, offset) = Ch.quote
    THEN parseValueString(s, offset, cc, parseRawString(s, offset))
    ELSE IF At(s, offset) = Ch.t
    THEN IF ~HasPrefixAt(s, offset, StrTrue) THEN Ret(Nil, 0, TRUE, cc)
         ELSE RetNew(s, offset + valueTrue.dl,
                     NewLiteral(cc, valueTrue.t, offset, valueTrue.dl))
    ELSE IF At(s, offset) = Ch.f
    THEN IF ~HasPrefixAt(s, offset, StrFalse) THEN Ret(Nil, 0, TRUE, cc)
         ELSE RetNew(s, offset + valueFalse.dl,
                     NewLiteral(cc, valueFalse.t, offset, valueFalse.dl))
    ELSE IF At(s, offset) = Ch.n
    THEN IF HasPrefixAt(s, offset, StrNull)
         THEN RetNew(s, offset + valueNull.dl,
                     NewLiteral(cc, valueNull.t, offset, valueNull.dl))
         ELSE IF Len(s) - offset >= 3
                 /\ EqualFold(Slice(s, offset, offset + 3), StrNan)
         THEN RetNew(s, offset + 3,
                     NewValue(cc, TypeNumber, View(offset, 3), offset, 3))
         ELSE Ret(Nil, 0, TRUE, cc)
    ELSE parseValueNumber(s, offset + parseRawNumber(s, offset).n, cc,
                          parseRawNumber(s, offset))

\* a := c.getValue(); a.t = TypeArray; a.a = a.a[:0]; a.do = start_offset
NewArray(cc, start_offset) ==
    [cacheGetValue(cc) EXCEPT !.vs[cc.len + 1] =
        [@ EXCEPT !.t = TypeArray, !.a = <<>>, !.do = start_offset]]

parseArray(s, start_offset, cc, depth) ==
    LET offset == SkipFrom(s, start_offset + 1)
    IN  IF offset >= Len(s)
        THEN RetN(Nil, offset - start_offset, TRUE, cc)
        ELSE IF At(s, offset) = Ch.rbrack
        THEN RetN(cc.len + 1, offset - start_offset + 1, FALSE,
                  [NewArray(cc, start_offset) EXCEPT
                      !.vs[cc.len + 1].dl = offset - start_offset + 1])
        ELSE parseArrayLoop(s, start_offset, offset,
                            NewArray(cc, start_offset), depth, cc.len + 1)

\* The head of the loop: skip whitespace and parse the next element.
parseArrayLoop(s, start_offset, offset0, cc, depth, a) ==
    parseArrayElem(s, start_offset, SkipFrom(s, offset0),
                   parseValue(s, SkipFrom(s, offset0), cc, depth), depth, a)

\* The loop after parseValue returned r: append the element, step over it.
parseArrayElem(s, start_offset, offset, r, depth, a) ==
    IF r.panic THEN Panic(r.c)
    ELSE IF r.err THEN RetN(Nil, offset, TRUE, r.c)
    ELSE IF ~SliceOK(s, offset + r.c.vs[r.v].dl) THEN Panic(r.c)
    ELSE parseArrayNext(s, start_offset,
                        SkipFrom(s, offset + r.c.vs[r.v].dl),
                        [r.c EXCEPT !.vs[a].a = Append(@, r.v)], depth, a)

\* The loop after the element: ',' continues, ']' ends the array.
parseArrayNext(s, start_offset, offset, cc, depth, a) ==
    IF offset >= Len(s) THEN RetN(Nil, offset, TRUE, cc)
    ELSE IF At(s, offset) = Ch.comma
    THEN parseArrayLoop(s, start_offset, offset + 1, cc, depth, a)
    ELSE IF At(s, offset) = Ch.rbrack
    THEN RetN(a, offset + 1 - start_offset, FALSE,
              [cc EXCEPT !.vs[a].dl = offset + 1 - start_offset])
    ELSE RetN(Nil, offset - start_offset, TRUE, cc)

\* o := c.getValue(); o.t = TypeObject; o.o.reset(); o.do = start_offset
NewObject(cc, start_offset) ==
    [cacheGetValue(cc) EXCEPT !.vs[cc.len + 1] =
        [@ EXCEPT !.t = TypeObject, !.o = objectReset(@),
                  !.do = start_offset]]

parseObject(s, start_offset, cc, depth) ==
    LET offset == SkipFrom(s, start_offset + 1)
    IN  IF offset >= Len(s)
        THEN RetN(Nil, offset - start_offset, TRUE, cc)
        ELSE IF At(s, offset) = Ch.rbrace
        THEN RetN(cc.len + 1, offset - start_offset + 1, FALSE,
                  [NewObject(cc, start_offset) EXCEPT
                      !.vs[cc.len + 1].dl = offset - start_offset + 1])
        ELSE parseObjectLoop(s, start_offset, offset,
                             NewObject(cc, start_offset), depth, cc.len + 1)

\* The head of the loop: kv := o.o.getKV(), then the key.
parseObjectLoop(s, start_offset, offset0, cc, depth, o) ==
    LET offset == SkipFrom(s, offset0)
    IN  IF Len(s) - offset = 0 \/ At(s, offset) # Ch.quote
        THEN RetN(Nil, offset - start_offset, TRUE,
                  [cc EXCEPT !.vs[o].o = objectGetKV(@)])
        ELSE parseObjectKey(s, start_offset, offset, parseRawKey(s, offset),
                            [cc EXCEPT !.vs[o].o = objectGetKV(@)], depth, o)

\* The loop after parseRawKey returned k: the ':' and the entry's value.
parseObjectKey(s, start_offset, offset0, k, cc, depth, o) ==
    LET c1 == [cc EXCEPT !.vs[o].o.kvs[cc.vs[o].o.len].k = k.str]
        offset == SkipFrom(s, offset0 + k.n)
    IN  IF k.err THEN RetN(Nil, offset0 + k.n - start_offset, TRUE, c1)
        ELSE IF offset >= Len(s) \/ At(s, offset) # Ch.colon
        THEN RetN(Nil, offset - start_offset, TRUE, c1)
        ELSE parseObjectValue(s, start_offset, SkipFrom(s, offset + 1),
                    parseValue(s, SkipFrom(s, offset + 1), c1, depth),
                    depth, o)

\* The loop after parseValue returned r: kv.v = v, step over the value.
parseObjectValue(s, start_offset, offset, r, depth, o) ==
    LET c1 == [r.c EXCEPT !.vs[o].o.kvs[r.c.vs[o].o.len].v = r.v]
    IN  IF r.panic THEN Panic(r.c)
        ELSE IF r.err THEN RetN(Nil, offset - start_offset, TRUE, c1)
        ELSE IF ~SliceOK(s, offset + c1.vs[r.v].dl) THEN Panic(c1)
        ELSE parseObjectNext(s, start_offset,
                             SkipFrom(s, offset + c1.vs[r.v].dl),
                             c1, depth, o)

\* The loop after the value: ',' continues, '}' ends the object.
parseObjectNext(s, start_offset, offset, cc, depth, o) ==
    IF offset >= Len(s) THEN RetN(Nil, offset - start_offset, TRUE, cc)
    ELSE IF At(s, offset) = Ch.comma
    THEN parseObjectLoop(s, start_offset, offset + 1, cc, depth, o)
    ELSE IF At(s, offset) = Ch.rbrace
    THEN RetN(o, offset + 1 - start_offset, FALSE,
              [cc EXCEPT !.vs[o].dl = offset + 1 - start_offset])
    ELSE RetN(Nil, offset - start_offset, TRUE, cc)

ErrNone  == ""
ErrParse == "cannot parse JSON"
ErrTail  == "unexpected tail"
ErrDepth == "too big depth for the nested JSON"

\* p.b = append(p.b[:0], s...) on the array buf behind p.b: s is written
\* over the start of the array when it fits, and to a new array otherwise.
\* The bytes of buf after the first len(s) stay as they were.
appendTo(buf, s) ==
    IF Len(s) <= Len(buf) THEN s \o SubSeq(buf, Len(s) + 1, Len(buf)) ELSE s

\* Parse that returns the value whatever follows it.
ParseReturn_NoTailCheck(buf, s, r) ==
    IF r.panic
    THEN [b |-> buf, c |-> r.c, v |-> Nil, err |-> ErrNone, panic |-> TRUE]
    ELSE IF r.err
    THEN [b |-> buf, c |-> r.c, v |-> Nil, err |-> ErrParse, panic |-> FALSE]
    ELSE [b |-> buf, c |-> r.c, v |-> r.v, err |-> ErrNone, panic |-> FALSE]

\* Parser.Parse after parseValue returned r on the string s == b2s(p.b),
\* buf being the array behind p.b.
ParseReturn(buf, s, r) ==
    IF r.panic
    THEN [b |-> buf, c |-> r.c, v |-> Nil, err |-> ErrNone, panic |-> TRUE]
    ELSE IF r.err
    THEN [b |-> buf, c |-> r.c, v |-> Nil, err |-> ErrParse, panic |-> FALSE]
    ELSE IF Len(s) - SkipFrom(s, r.tail) > 0
    THEN [b |-> buf, c |-> r.c, v |-> Nil, err |-> ErrTail, panic |-> FALSE]
    ELSE [b |-> buf, c |-> r.c, v |-> r.v, err |-> ErrNone, panic |-> FALSE]

\* Parser.Parse(s) on a parser whose buffer is buf and whose cache is cc:
\* the buffer and the cache after the call and the returned pair (v, err),
\* or a panic.
ParserParse(s, buf, cc) ==
    ParseReturn(appendTo(buf, SliceFrom(s, skipWS(s))),
                SliceFrom(s, skipWS(s)),
                parseValue(SliceFrom(s, skipWS(s)), 0, cacheReset(cc), 0))

------------------------------------------------------------------------------
(* Escaping and unescaping *)

HexDigit(ch) ==
    IF ch >= 48 /\ ch <= 57 THEN ch - 48
    ELSE IF ch >= 97 /\ ch <= 102 THEN ch - 97 + 10
    ELSE IF ch >= 65 /\ ch <= 70 THEN ch - 65 + 10
    ELSE -1

\* strconv.ParseUint(xs, 16, 16) on four bytes: the number, or -1 for err.
ParseUint16(xs) ==
    IF \E i \in 1 .. Len(xs) : HexDigit(xs[i]) < 0
    THEN -1
    ELSE HexDigit(xs[1]) * 4096 + HexDigit(xs[2]) * 256
         + HexDigit(xs[3]) * 16 + HexDigit(xs[4])

\* utf16.IsSurrogate and utf16.DecodeRune.
IsSurrogate(x) == x >= 55296 /\ x < 57344
DecodeRune(r1, r2) ==
    IF r1 >= 55296 /\ r1 < 56320 /\ r2 >= 56320 /\ r2 < 57344
    THEN (r1 - 55296) * 1024 + (r2 - 56320) + 65536
    ELSE 65533

\* string(rune(x)): the UTF-8 encoding of the code point x.
RuneBytes(x) ==
    IF x < 128 THEN <<x>>
    ELSE IF x < 2048 THEN <<192 + (x \div 64), 128 + (x % 64)>>
    ELSE IF x < 65536
    THEN <<224 + (x \div 4096), 128 + ((x \div 64) % 64), 128 + (x % 64)>>
    ELSE <<240 + (x \div 262144), 128 + ((x \div 4096) % 64),
           128 + ((x \div 64) % 64), 128 + (x % 64)>>

\* b = append(b, bytes...) where b ends at position w of the buffer it
\* shares with the string being read: the bytes land at buf[w:].
WriteAt(buf, w, bytes) ==
    [i \in 1 .. (IF w + Len(bytes) > Len(buf) THEN w + Len(bytes) ELSE Len(buf))
        |-> IF i > w /\ i <= w + Len(bytes) THEN bytes[i - w] ELSE buf[i]]

\* An unescape that keeps every escape sequence and doubles its backslash.
unescapeOne_Doubled(buf, ch, r, end) ==
    [out |-> <<Ch.backslash, Ch.backslash, ch>>, used |-> 0]

\* The bytes one escape sequence appends, and the bytes of s it consumes
\* after the escape character ch.  s is buf[r:end] after ch was read.
unescapeOne(buf, ch, r, end) ==
    IF ch = Ch.quote THEN [out |-> <<Ch.quote>>, used |-> 0]
    ELSE IF ch = Ch.backslash THEN [out |-> <<Ch.backslash>>, used |-> 0]
    ELSE IF ch = Ch.slash THEN [out |-> <<Ch.slash>>, used |-> 0]
    ELSE IF ch = Ch.bb THEN [out |-> <<Ch.bs>>, used |-> 0]
    ELSE IF ch = Ch.f THEN [out |-> <<Ch.ff>>, used |-> 0]
    ELSE IF ch = Ch.n THEN [out |-> <<Ch.lf>>, used |-> 0]
    ELSE IF ch = Ch.r THEN [out |-> <<Ch.cr>>, used |-> 0]
    ELSE IF ch = Ch.t THEN [out |-> <<Ch.tab>>, used |-> 0]
    ELSE IF ch = Ch.u THEN
        IF end - r < 4
        THEN [out |-> <<Ch.backslash, Ch.u>>, used |-> 0]
        ELSE
        LET xs == Slice(buf, r, r + 4)
            x  == ParseUint16(xs)
        IN  IF x < 0 THEN [out |-> <<Ch.backslash, Ch.u>>, used |-> 0]
            ELSE IF ~IsSurrogate(x) THEN [out |-> RuneBytes(x), used |-> 4]
            ELSE IF end - (r + 4) < 6 \/ At(buf, r + 4) # Ch.backslash
                                      \/ At(buf, r + 5) # Ch.u
            THEN [out |-> <<Ch.backslash, Ch.u>> \o xs, used |-> 4]
            ELSE LET x1 == ParseUint16(Slice(buf, r + 6, r + 10))
                 IN  IF x1 < 0
                     THEN [out |-> <<Ch.backslash, Ch.u>> \o xs, used |-> 4]
                     ELSE [out |-> RuneBytes(DecodeRune(x, x1)), used |-> 10]
    ELSE [out |-> <<Ch.backslash, ch>>, used |-> 0]

RECURSIVE unescapeLoop(_, _, _, _)
RECURSIVE unescapeCopy(_, _, _, _)

\* The slow path's loop: buf[r:end] is what is left of s after a backslash,
\* b ends at w.  One escape sequence is decoded and appended to b.
unescapeLoop(buf, w, r, end) ==
    IF r >= end THEN [buf |-> buf, w |-> w]
    ELSE unescapeCopy(
            WriteAt(buf, w, unescapeOne(buf, At(buf, r), r + 1, end).out),
            w + Len(unescapeOne(buf, At(buf, r), r + 1, end).out),
            r + 1 + unescapeOne(buf, At(buf, r), r + 1, end).used,
            end)

\* The rest of the loop body: the bytes up to the next backslash are
\* appended to b.
unescapeCopy(buf, w, r, end) ==
    LET idx == {i \in r .. end - 1 : At(buf, i) = Ch.backslash}
    IN  IF idx = {}
        THEN [buf |-> WriteAt(buf, w, Slice(buf, r, end)),
              w |-> w + (end - r)]
        ELSE unescapeLoop(WriteAt(buf, w, Slice(buf, r, Min(idx))),
                          w + (Min(idx) - r), Min(idx) + 1, end)

\* The string unescapeStringBestEffort returns: b[:w], which starts where
\* s started.
unescapedString(vw, r) == [buf |-> r.buf, s |-> View(vw.off, r.w - vw.off)]

\* unescapeStringBestEffort(s) for a string s == buf[vw.off : vw.off+vw.len]:
\* the buffer after the in-place decoding, and the returned string.
unescapeStringBestEffort(buf, vw) ==
    LET idx == {i \in vw.off .. vw.off + vw.len - 1 :
                    At(buf, i) = Ch.backslash}
    IN  IF idx = {}
        THEN [buf |-> buf, s |-> vw]
        ELSE unescapedString(vw,
                unescapeLoop(buf, Min(idx), Min(idx) + 1, vw.off + vw.len))


hasSpecialChars(s) ==
    \E i \in 1 .. Len(s) :
        s[i] = Ch.quote \/ s[i] = Ch.backslash \/ s[i] < 32

HexChar(d) == IF d < 10 THEN 48 + d ELSE 97 + d - 10

\* What strconv.AppendQuote writes for one byte of an ASCII string: Go
\* escapes, not JSON escapes.
QuoteByte(ch) ==
    IF ch = Ch.quote \/ ch = Ch.backslash THEN <<Ch.backslash, ch>>
    ELSE IF ch >= 32 /\ ch < 127 THEN <<ch>>
    ELSE IF ch = 7 THEN <<Ch.backslash, 97>>
    ELSE IF ch = Ch.bs THEN <<Ch.backslash, Ch.bb>>
    ELSE IF ch = Ch.ff THEN <<Ch.backslash, Ch.f>>
    ELSE IF ch = Ch.lf THEN <<Ch.backslash, Ch.n>>
    ELSE IF ch = Ch.cr THEN <<Ch.backslash, Ch.r>>
    ELSE IF ch = Ch.tab THEN <<Ch.backslash, Ch.t>>
    ELSE IF ch = 11 THEN <<Ch.backslash, 118>>
    ELSE IF ch < 32 \/ ch = 127
    THEN <<Ch.backslash, 120, HexChar(ch \div 16), HexChar((ch % 16))>>
    ELSE <<ch>>

RECURSIVE QuoteBytes(_)
QuoteBytes(s) ==
    IF s = <<>> THEN <<>> ELSE QuoteByte(Head(s)) \o QuoteBytes(Tail(s))

AppendQuote(dst0, s) == dst0 \o <<Ch.quote>> \o QuoteBytes(s) \o <<Ch.quote>>

escapeString(dst0, s) ==
    IF ~hasSpecialChars(s)
    THEN dst0 \o <<Ch.quote>> \o s \o <<Ch.quote>>
    ELSE AppendQuote(dst0, s)

------------------------------------------------------------------------------
------------------------------------------------------------------------------
(* Object and Value *)

RECURSIVE valueMarshalTo(_, _, _, _)
RECURSIVE objectMarshalFrom(_, _, _, _, _)
RECURSIVE arrayMarshalFrom(_, _, _, _, _)

\* A separator written after the last element too.
appendComma_Always(dst0, more) == dst0 \o <<Ch.comma>>

\* if i != len(..)-1 { dst = append(dst, ',') }
appendComma(dst0, more) == IF more THEN dst0 \o <<Ch.comma>> ELSE dst0

\* The key of an entry as Object.MarshalTo writes it.
marshalKey(dst0, buf, o, k) ==
    IF o.keysUnescaped
    THEN escapeString(dst0, Bytes(buf, k))
    ELSE dst0 \o <<Ch.quote>> \o Bytes(buf, k) \o <<Ch.quote>>

\* The loop of Object.MarshalTo, entries i.. of the object in slot v.
objectMarshalFrom(dst0, buf, cc, v, i) ==
    IF i > cc.vs[v].o.len THEN dst0
    ELSE objectMarshalFrom(
            appendComma(
                valueMarshalTo(
                    marshalKey(dst0, buf, cc.vs[v].o, cc.vs[v].o.kvs[i].k)
                        \o <<Ch.colon>>,
                    buf, cc, cc.vs[v].o.kvs[i].v),
                i # cc.vs[v].o.len),
            buf, cc, v, i + 1)

objectMarshalTo(dst0, buf, cc, v) ==
    objectMarshalFrom(dst0 \o <<Ch.lbrace>>, buf, cc, v, 1) \o <<Ch.rbrace>>

\* The loop of the TypeArray case of Value.MarshalTo, elements i.. .
arrayMarshalFrom(dst0, buf, cc, v, i) ==
    IF i > Len(cc.vs[v].a) THEN dst0
    ELSE arrayMarshalFrom(
            appendComma(valueMarshalTo(dst0, buf, cc, cc.vs[v].a[i]),
                        i # Len(cc.vs[v].a)),
            buf, cc, v, i + 1)

\* Value.MarshalTo for the value in slot v.
valueMarshalTo(dst0, buf, cc, v) ==
    IF cc.vs[v].t = typeRawString
    THEN dst0 \o <<Ch.quote>> \o Bytes(buf, cc.vs[v].s) \o <<Ch.quote>>
    ELSE IF cc.vs[v].t = TypeObject THEN objectMarshalTo(dst0, buf, cc, v)
    ELSE IF cc.vs[v].t = TypeArray
    THEN arrayMarshalFrom(dst0 \o <<Ch.lbrack>>, buf, cc, v, 1)
            \o <<Ch.rbrack>>
    ELSE IF cc.vs[v].t = TypeString
    THEN escapeString(dst0, Bytes(buf, cc.vs[v].s))
    ELSE IF cc.vs[v].t = TypeNumber THEN dst0 \o Bytes(buf, cc.vs[v].s)
    ELSE IF cc.vs[v].t = TypeTrue THEN dst0 \o StrTrue
    ELSE IF cc.vs[v].t = TypeFalse THEN dst0 \o StrFalse
    ELSE dst0 \o StrNull

RECURSIVE unescapeKeysFrom(_, _, _, _)
RECURSIVE unescapeKey(_, _, _, _)

\* The loop of Object.unescapeKeys on the object in slot v, keys i.. .
unescapeKeysFrom(buf, cc, v, i) ==
    IF i > cc.vs[v].o.len THEN [b |-> buf, c |-> cc]
    ELSE unescapeKey(cc, v, i,
                     unescapeStringBestEffort(buf, cc.vs[v].o.kvs[i].k))

\* kv.k = unescapeStringBestEffort(kv.k), r being what the call returned.
unescapeKey(cc, v, i, r) ==
    unescapeKeysFrom(r.buf, [cc EXCEPT !.vs[v].o.kvs[i].k = r.s], v, i + 1)

\* o.keysUnescaped = true
keysUnescaped(r, v) ==
    [b |-> r.b, c |-> [r.c EXCEPT !.vs[v].o.keysUnescaped = TRUE]]

objectUnescapeKeys(buf, cc, v) ==
    IF cc.vs[v].o.keysUnescaped THEN [b |-> buf, c |-> cc]
    ELSE keysUnescaped(unescapeKeysFrom(buf, cc, v, 1), v)

\* for _, kv := range o.kvs { if kv.k == key { return kv.v } }; return nil
FindKey(buf, o, key) ==
    LET hit == {i \in 1 .. o.len : Bytes(buf, o.kvs[i].k) = key}
    IN  IF hit = {} THEN Nil ELSE o.kvs[Min(hit)].v

\* The slow path of Object.Get, r being the parser after o.unescapeKeys().
objectGetSlow(r, v, key) ==
    [b |-> r.b, c |-> r.c, v |-> FindKey(r.b, r.c.vs[v].o, key)]

\* Object.Get on the object in slot v: the value found and the parser's
\* buffer and cache after the call.
objectGet(buf, cc, v, key) ==
    IF /\ ~cc.vs[v].o.keysUnescaped
       /\ IndexByteFrom(key, 0, Ch.backslash) < 0
       /\ FindKey(buf, cc.vs[v].o, key) # Nil
    THEN [b |-> buf, c |-> cc, v |-> FindKey(buf, cc.vs[v].o, key)]
    ELSE objectGetSlow(objectUnescapeKeys(buf, cc, v), v, key)

\* The calls f(key, v) that Object.Visit makes, in order.
visitCalls(r, v) ==
    [b |-> r.b, c |-> r.c,
     trace |-> [i \in 1 .. r.c.vs[v].o.len |->
                   [key |-> Bytes(r.b, r.c.vs[v].o.kvs[i].k),
                    v |-> r.c.vs[v].o.kvs[i].v]]]

\* Object.Visit on the object in slot v.
objectVisit(buf, cc, v) == visitCalls(objectUnescapeKeys(buf, cc, v), v)

\* v.s = unescapeStringBestEffort(v.s); v.t = TypeString
valueUnescape(cc, v, r) ==
    [b |-> r.buf,
     c |-> [cc EXCEPT !.vs[v].s = r.s, !.vs[v].t = TypeString],
     t |-> TypeString]

\* A Type that unescapes the string whatever the type of the value says.
valueType_Again(buf, cc, v) ==
    IF cc.vs[v].t \in {typeRawString, TypeString}
    THEN valueUnescape(cc, v, unescapeStringBestEffort(buf, cc.vs[v].s))
    ELSE [b |-> buf, c |-> cc, t |-> cc.vs[v].t]

\* Value.Type on the value in slot v.
valueType(buf, cc, v) ==
    IF cc.vs[v].t = typeRawString
    THEN valueUnescape(cc, v, unescapeStringBestEffort(buf, cc.vs[v].s))
    ELSE [b |-> buf, c |-> cc, t |-> cc.vs[v].t]

valueOffset(cc, v) == IF v = Nil THEN 0 ELSE cc.vs[v].do
valueLen(cc, v) == IF v = Nil THEN 0 ELSE cc.vs[v].dl

------------------------------------------------------------------------------
(* Updates.  A value that does not come from the parser's cache (the tree  *)
(* of another parser, &Value{...}, the global valueNull) is held in a slot *)
(* appended to vs, and a string that is not part of the parsed input (a    *)
(* key passed by the caller, the input of another parser) in bytes         *)
(* appended to the buffer: together they are the memory the handles and    *)
(* the strings point into.                                                 *)

\* The value val, at a new address.
NewHeapValue(cc, val) ==
    [vs |-> Append(cc.vs, val), len |-> Len(cc.vs) + 1]

\* The string str, at a new address.
NewHeapString(buf, str) == [buf |-> buf \o str, s |-> View(Len(buf), Len(str))]

\* The value val of another parser, whose slots are held dv slots up and
\* whose buffer ds bytes up.
Relocate(val, dv, ds) ==
    [val EXCEPT
        !.s = View(@.off + ds, @.len),
        !.a = [i \in 1 .. Len(@) |-> @[i] + dv],
        !.o.kvs = [i \in 1 .. Len(@) |->
                      [k |-> View(@[i].k.off + ds, @[i].k.len),
                       v |-> IF @[i].v = Nil THEN Nil ELSE @[i].v + dv]]]

\* MustParse(doc), r being what a parser of its own returned for doc, a
\* document that it accepts.
MustParseInto(buf, cc, r) ==
    [b |-> buf \o r.b,
     c |-> [vs |-> cc.vs \o [i \in 1 .. r.c.len |->
                                Relocate(r.c.vs[i], Len(cc.vs), Len(buf))],
            len |-> Len(cc.vs) + r.c.len],
     v |-> r.v + Len(cc.vs)]

MustParse(buf, cc, doc) ==
    MustParseInto(buf, cc, ParserParse(doc, <<>>, ZeroCache))

\* The value of a string of decimal digits.
RECURSIVE DigitsValue(_)
DigitsValue(ds) ==
    IF ds = <<>> THEN 0
    ELSE 10 * DigitsValue(SubSeq(ds, 1, Len(ds) - 1))
            + (ds[Len(ds)] - Ch.zero)

\* strconv.Atoi(key), for keys short enough not to overflow: an optional
\* sign and one decimal digit or more.
Atoi(key) ==
    LET ds == IF key # <<>> /\ key[1] \in {Ch.plus, Ch.minus}
              THEN Tail(key) ELSE key
    IN  IF ds = <<>> \/ \E i \in 1 .. Len(ds) : ~(ds[i] >= Ch.zero /\ ds[i] <= Ch.nine)
        THEN [n |-> 0, err |-> TRUE]
        ELSE [n |-> IF key[1] = Ch.minus THEN 0 - DigitsValue(ds)
                    ELSE DigitsValue(ds),
              err |-> FALSE]

\* The first entry of o whose key is key, 0 when there is none.
FindEntry(buf, o, key) ==
    LET hit == {i \in 1 .. o.len : Bytes(buf, o.kvs[i].k) = key}
    IN  IF hit = {} THEN 0 ELSE Min(hit)

\* kv := o.getKV(); kv.k = key; kv.v = value, the key being at k.
objectAppend(cc, v, k, value) ==
    [cc EXCEPT !.vs[v].o =
        [objectGetKV(@) EXCEPT !.kvs[objectGetKV(cc.vs[v].o).len] =
            [k |-> k, v |-> value]]]

\* Object.Set after o.unescapeKeys() returned r: the first entry with the
\* key gets the value, or else an entry is appended.
objectSetEntry(r, v, key, value) ==
    IF FindEntry(r.b, r.c.vs[v].o, key) # 0
    THEN [b |-> r.b,
          c |-> [r.c EXCEPT
                   !.vs[v].o.kvs[FindEntry(r.b, r.c.vs[v].o, key)].v = value]]
    ELSE [b |-> NewHeapString(r.b, key).buf,
          c |-> objectAppend(r.c, v, NewHeapString(r.b, key).s, value)]

\* An Object.Set that always appends.
objectSet_Append(buf, cc, v, key, value) ==
    [b |-> NewHeapString(buf, key).buf,
     c |-> objectAppend(cc, v, NewHeapString(buf, key).s, value)]

\* o.Set(key, value) on the object in slot v.
objectSet(buf, cc, v, key, value) ==
    objectSetEntry(objectUnescapeKeys(buf, cc, v), v, key, value)

\* q without its i-th element.
RemoveAt(q, i) == SubSeq(q, 1, i - 1) \o SubSeq(q, i + 1, Len(q))

\* o.kvs = append(o.kvs[:i], o.kvs[i+1:]...) for the i-th entry: the later
\* entries move down by one and the last one stays behind as spare capacity.
objectRemove(o, i) ==
    [o EXCEPT !.kvs = SubSeq(o.kvs, 1, i - 1) \o SubSeq(o.kvs, i + 1, o.len)
                        \o SubSeq(o.kvs, o.len, Len(o.kvs)),
              !.len = o.len - 1]

\* Object.Del after o.unescapeKeys() returned r.
objectDelEntry(r, v, key) ==
    IF FindEntry(r.b, r.c.vs[v].o, key) = 0 THEN r
    ELSE [b |-> r.b,
          c |-> [r.c EXCEPT !.vs[v].o =
                    objectRemove(@, FindEntry(r.b, r.c.vs[v].o, key))]]

\* An Object.Del that removes the last entry when the key is there.
objectDel_Last(buf, cc, v, key) ==
    IF FindEntry(objectUnescapeKeys(buf, cc, v).b,
                 objectUnescapeKeys(buf, cc, v).c.vs[v].o, key) = 0
    THEN objectUnescapeKeys(buf, cc, v)
    ELSE [b |-> objectUnescapeKeys(buf, cc, v).b,
          c |-> [objectUnescapeKeys(buf, cc, v).c EXCEPT
                    !.vs[v].o = objectRemove(@, @.len)]]

\* o.Del(key) on the object in slot v.
objectDel(buf, cc, v, key) ==
    objectDelEntry(objectUnescapeKeys(buf, cc, v), v, key)

\* A SetArrayItem that appends the value without padding.
valueSetArrayItem_NoPad(buf, cc, v, idx, value) ==
    IF v = Nil \/ cc.vs[v].t # TypeArray \/ idx < 0 THEN [b |-> buf, c |-> cc]
    ELSE IF idx < Len(cc.vs[v].a)
    THEN [b |-> buf, c |-> [cc EXCEPT !.vs[v].a[idx + 1] = value]]
    ELSE [b |-> buf, c |-> [cc EXCEPT !.vs[v].a = Append(@, value)]]

\* v.SetArrayItem(idx, value): the array is padded with valueNull up to idx;
\* an invalid index, one below 0, is a no-op.
valueSetArrayItem(buf, cc, v, idx, value) ==
    IF v = Nil \/ cc.vs[v].t # TypeArray \/ idx < 0 THEN [b |-> buf, c |-> cc]
    ELSE IF idx < Len(cc.vs[v].a)
    THEN [b |-> buf, c |-> [cc EXCEPT !.vs[v].a[idx + 1] = value]]
    ELSE IF idx = Len(cc.vs[v].a)
    THEN [b |-> buf, c |-> [cc EXCEPT !.vs[v].a = Append(@, value)]]
    ELSE [b |-> buf,
          c |-> [NewHeapValue(cc, valueNull) EXCEPT !.vs[v].a =
                    @ \o [i \in 1 .. idx - Len(@) |-> Len(cc.vs) + 1]
                      \o <<value>>]]

\* v.Set(key, value) on the value in slot v.
valueSet(buf, cc, v, key, value) ==
    IF v = Nil THEN [b |-> buf, c |-> cc]
    ELSE IF cc.vs[v].t = TypeObject THEN objectSet(buf, cc, v, key, value)
    ELSE IF cc.vs[v].t = TypeArray
    THEN IF Atoi(key).err \/ Atoi(key).n < 0 THEN [b |-> buf, c |-> cc]
         ELSE valueSetArrayItem(buf, cc, v, Atoi(key).n, value)
    ELSE [b |-> buf, c |-> cc]

\* v.Del(key) on the value in slot v.
valueDel(buf, cc, v, key) ==
    IF v = Nil THEN [b |-> buf, c |-> cc]
    ELSE IF cc.vs[v].t = TypeObject THEN objectDel(buf, cc, v, key)
    ELSE IF cc.vs[v].t = TypeArray
    THEN IF Atoi(key).err \/ Atoi(key).n < 0
            \/ Atoi(key).n >= Len(cc.vs[v].a)
         THEN [b |-> buf, c |-> cc]
         ELSE [b |-> buf,
               c |-> [cc EXCEPT !.vs[v].a = RemoveAt(@, Atoi(key).n + 1)]]
    ELSE [b |-> buf, c |-> cc]

\* The steps of a Path: a key (a string) or an index (an int).
PathKey(k) == [int |-> FALSE, k |-> k, idx |-> 0]
PathIdx(i) == [int |-> TRUE, k |-> <<>>, idx |-> i]

\* A child that is an object whatever follows.
NewChild_Object(next) == [ZeroValue EXCEPT !.t = TypeObject]

\* &Value{t: TypeArray} when the step that follows is an int, otherwise
\* &Value{t: TypeObject}.
NewChild(next) ==
    [ZeroValue EXCEPT !.t = IF next.int THEN TypeArray ELSE TypeObject]

Same(buf, cc) == [b |-> buf, c |-> cc]

\* The call has panicked, leaving the memory as it was at that point.
Panicked(buf, cc) == [b |-> buf, c |-> cc, panic |-> TRUE]
HasPanicked(r) == "panic" \in DOMAIN r

RECURSIVE valueSetP(_, _, _, _, _)

\* v.o.Get(k).SetP(rest, value), g being what v.o.Get(k) returned.
setPInto(g, rest, value) == valueSetP(g.b, g.c, g.v, rest, value)

\* SetP on an object after child := v.o.Get(k) returned g, when steps follow.
setPObject(g, v, path, value) ==
    IF g.v = Nil
    THEN setPInto(
            objectGet(
                objectSet(g.b, NewHeapValue(g.c, NewChild(path[2])), v,
                          path[1].k, Len(g.c.vs) + 1).b,
                objectSet(g.b, NewHeapValue(g.c, NewChild(path[2])), v,
                          path[1].k, Len(g.c.vs) + 1).c,
                v, path[1].k),
            Tail(path), value)
    ELSE setPInto(objectGet(g.b, g.c, v, path[1].k), Tail(path), value)

\* v.a[idx].SetP(rest, value), r being the memory at that point: indexing
\* the slice with an idx below 0 panics.
setPElem(r, v, idx, rest, value) ==
    IF idx < 0 THEN Panicked(r.b, r.c)
    ELSE valueSetP(r.b, r.c, r.c.vs[v].a[idx + 1], rest, value)

\* SetP on an array, idx being the index after -1 was replaced by len(v.a).
setPArray(buf, cc, v, idx, path, value) ==
    IF Len(path) = 1 THEN valueSetArrayItem(buf, cc, v, idx, value)
    ELSE IF idx >= Len(cc.vs[v].a)
    THEN setPElem(
            valueSetArrayItem(buf, NewHeapValue(cc, NewChild(path[2])), v,
                              idx, Len(cc.vs) + 1),
            v, idx, Tail(path), value)
    ELSE setPElem(Same(buf, cc), v, idx, Tail(path), value)

\* An index -1 that addresses the first element.
appendIndex_First(n, idx) == IF idx = -1 THEN 0 ELSE idx

\* if idx == -1 { idx = len(v.a) }, n being len(v.a).
appendIndex(n, idx) == IF idx = -1 THEN n ELSE idx

\* v.SetP(path, value) on the value in slot v.
valueSetP(buf, cc, v, path, value) ==
    IF v = Nil \/ Len(path) = 0 THEN Same(buf, cc)
    ELSE IF cc.vs[v].t = TypeObject
    THEN IF path[1].int THEN Same(buf, cc)
         ELSE IF Len(path) = 1
         THEN objectSet(buf, cc, v, path[1].k, value)
         ELSE setPObject(objectGet(buf, cc, v, path[1].k), v, path, value)
    ELSE IF cc.vs[v].t = TypeArray
    THEN IF ~path[1].int THEN Same(buf, cc)
         ELSE setPArray(buf, cc, v,
                        appendIndex(Len(cc.vs[v].a), path[1].idx),
                        path, value)
    ELSE Same(buf, cc)

RECURSIVE valueGetP(_, _, _, _)

\* child.GetP(rest), g being what v.o.Get(k) returned.
getPInto(g, rest) ==
    IF g.v = Nil THEN g ELSE valueGetP(g.b, g.c, g.v, rest)

\* v.GetP(path) on the value in slot v: the value found, and the memory
\* after the call.
valueGetP(buf, cc, v, path) ==
    IF v = Nil \/ Len(path) = 0 THEN [b |-> buf, c |-> cc, v |-> Nil]
    ELSE IF cc.vs[v].t = TypeObject
    THEN IF path[1].int THEN [b |-> buf, c |-> cc, v |-> Nil]
         ELSE IF Len(path) = 1 THEN objectGet(buf, cc, v, path[1].k)
         ELSE getPInto(objectGet(buf, cc, v, path[1].k), Tail(path))
    ELSE IF cc.vs[v].t = TypeArray
    THEN IF ~path[1].int THEN [b |-> buf, c |-> cc, v |-> Nil]
         ELSE IF path[1].idx < 0 \/ path[1].idx >= Len(cc.vs[v].a)
         THEN [b |-> buf, c |-> cc, v |-> Nil]
         ELSE IF Len(path) = 1
         THEN [b |-> buf, c |-> cc, v |-> cc.vs[v].a[path[1].idx + 1]]
         ELSE getPInto([b |-> buf, c |-> cc,
                        v |-> cc.vs[v].a[path[1].idx + 1]], Tail(path))
    ELSE [b |-> buf, c |-> cc, v |-> Nil]

RECURSIVE valueGet(_, _, _, _)

\* The rest of the loop of Value.Get after v.o.Get(key) returned g.
valueGetInto(g, keys) ==
    IF g.v = Nil THEN g ELSE valueGet(g.b, g.c, g.v, keys)

\* v.Get(keys...) on the value in slot v: the value found, and the memory
\* after the call.
valueGet(buf, cc, v, keys) ==
    IF v = Nil \/ keys = <<>> THEN [b |-> buf, c |-> cc, v |-> v]
    ELSE IF cc.vs[v].t = TypeObject
    THEN valueGetInto(objectGet(buf, cc, v, keys[1]), Tail(keys))
    ELSE IF cc.vs[v].t = TypeArray
    THEN IF Atoi(keys[1]).err \/ Atoi(keys[1]).n < 0
            \/ Atoi(keys[1]).n >= Len(cc.vs[v].a)
         THEN [b |-> buf, c |-> cc, v |-> Nil]
         ELSE valueGet(buf, cc, cc.vs[v].a[Atoi(keys[1]).n + 1], Tail(keys))
    ELSE [b |-> buf, c |-> cc, v |-> Nil]

------------------------------------------------------------------------------
(* The shared values.  The variant of the parser in part_003 has five      *)
(* values that every parser of the process hands out: parseValue returns   *)
(* valueTrue, valueFalse and valueNull for the literals, parseArray returns *)
(* emptyArray for [] and parseObject returns emptyObject for {}.  They are  *)
(* the first five slots of the memory, which the values of every parser    *)
(* follow.                                                                 *)

sharedTrue  == 1
sharedFalse == 2
sharedNull  == 3
emptyObject == 4
emptyArray  == 5

SharedValues ==
    << [ZeroValue EXCEPT !.t = TypeTrue],
       [ZeroValue EXCEPT !.t = TypeFalse],
       [ZeroValue EXCEPT !.t = TypeNull],
       [ZeroValue EXCEPT !.t = TypeObject],
       [ZeroValue EXCEPT !.t = TypeArray] >>

SharedMemory == [vs |-> SharedValues, len |-> Len(SharedValues)]

\* What the variant's parser returns where the parser of parser.go returns
\* the slot h of r: a shared value for a literal, for [] and for {}, or
\* else the parser's own slot, the slots being held dv slots up.
sharedHandle(r, h, dv) ==
    IF h = Nil THEN Nil
    ELSE IF r.c.vs[h].t = TypeTrue THEN sharedTrue
    ELSE IF r.c.vs[h].t = TypeFalse THEN sharedFalse
    ELSE IF r.c.vs[h].t = TypeNull THEN sharedNull
    ELSE IF r.c.vs[h].t = TypeObject /\ r.c.vs[h].o.len = 0 THEN emptyObject
    ELSE IF r.c.vs[h].t = TypeArray /\ r.c.vs[h].a = <<>> THEN emptyArray
    ELSE h + dv

\* The slot h of r with the values it refers to being what the variant's
\* parser returns for them, its buffer being held ds bytes up.
sharedValue(r, h, dv, ds) ==
    [r.c.vs[h] EXCEPT
        !.s = View(@.off + ds, @.len),
        !.a = [i \in 1 .. Len(@) |-> sharedHandle(r, @[i], dv)],
        !.o.kvs = [i \in 1 .. Len(@) |->
                      [k |-> View(@[i].k.off + ds, @[i].k.len),
                       v |-> sharedHandle(r, @[i].v, dv)]]]

\* The root that the variant's parser returns.
sharedRoot(r, dv) == sharedHandle(r, r.v, dv)

\* p.Parse(doc) of the variant on a parser of its own, r being what the
\* parser of parser.go returns for doc, a document that both accept: the
\* parser's buffer and values follow those of the memory.
sharedParse(buf, cc, r) ==
    [b |-> buf \o r.b,
     c |-> [vs |-> cc.vs \o [i \in 1 .. r.c.len |->
                                sharedValue(r, i, Len(cc.vs), Len(buf))],
            len |-> Len(cc.vs) + r.c.len],
     v |-> sharedRoot(r, Len(cc.vs))]

\* The slow path of Object.set of the variant, the unescaped key being at k
\* and r being the memory after o.unescapeKeys().
variantSetSlow(r, v, k, value) ==
    IF FindEntry(r.b, r.c.vs[v].o, Bytes(r.b, k)) # 0
    THEN [b |-> r.b,
          c |-> [r.c EXCEPT
                   !.vs[v].o.kvs[FindEntry(r.b, r.c.vs[v].o, Bytes(r.b, k))].v
                       = value],
          v |-> v]
    ELSE [b |-> r.b, c |-> objectAppend(r.c, v, k, value), v |-> v]

\* k = unescapeStringBestEffort(k); o.unescapeKeys(), u being what the
\* first call returned.
variantSetUnescape(u, cc, v, value) ==
    variantSetSlow(objectUnescapeKeys(u.buf, cc, v), v, u.s, value)

\* o.set(k, value) of the variant on the object in slot v, hs being the
\* key of the caller: the key is compared with the keys as they are, then
\* it and the keys are unescaped and compared, then an entry is appended.
variantSet(hs, cc, v, value) ==
    IF FindEntry(hs.buf, cc.vs[v].o, Bytes(hs.buf, hs.s)) # 0
    THEN [b |-> hs.buf,
          c |-> [cc EXCEPT
                   !.vs[v].o.kvs[FindEntry(hs.buf, cc.vs[v].o,
                                           Bytes(hs.buf, hs.s))].v = value],
          v |-> v]
    ELSE variantSetUnescape(unescapeStringBestEffort(hs.buf, hs.s), cc, v,
                            value)

\* Value.setInObject of the variant: the shared empty object is copied
\* before the entry is set in the copy.
setInObject(buf, cc, v, key, value) ==
    IF v = emptyObject
    THEN variantSet(NewHeapString(buf, key),
                    NewHeapValue(cc, [ZeroValue EXCEPT !.t = TypeObject]),
                    Len(cc.vs) + 1, value)
    ELSE variantSet(NewHeapString(buf, key), cc, v, value)

\* Value.setInArray of the variant.
setInArray(buf, cc, v, key, value) ==
    IF v = emptyArray \/ Atoi(key).err \/ Atoi(key).n < 0
       \/ Atoi(key).n >= Len(cc.vs[v].a)
    THEN [b |-> buf, c |-> cc, v |-> Nil]
    ELSE [b |-> buf, c |-> [cc EXCEPT !.vs[v].a[Atoi(key).n + 1] = value],
          v |-> v]

\* Value.setNoRecurse of the variant.
setNoRecurse(buf, cc, v, key, value) ==
    IF v = Nil \/ value = Nil THEN [b |-> buf, c |-> cc, v |-> Nil]
    ELSE IF cc.vs[v].t = TypeObject THEN setInObject(buf, cc, v, key, value)
    ELSE IF cc.vs[v].t = TypeArray THEN setInArray(buf, cc, v, key, value)
    ELSE [b |-> buf, c |-> cc, v |-> Nil]

RECURSIVE sharedSet(_, _, _, _, _)

\* return v.setNoRecurse(keys[0], retval), r being what target.Set returned.
sharedSetBack(r, v, key) == setNoRecurse(r.b, r.c, v, key, r.v)

\* Value.Set of the variant after target := v.Get(keys[0]) returned g.
sharedSetInto(g, v, keys, value) ==
    IF g.v = Nil /\ g.c.vs[v].t = TypeObject
    THEN sharedSetBack(
            sharedSet(g.b,
                      NewHeapValue(g.c, [ZeroValue EXCEPT !.t = TypeObject]),
                      Len(g.c.vs) + 1, Tail(keys), value),
            v, keys[1])
    ELSE IF g.v = Nil THEN [b |-> g.b, c |-> g.c, v |-> Nil]
    ELSE sharedSetBack(sharedSet(g.b, g.c, g.v, Tail(keys), value),
                       v, keys[1])

\* v.Set(keys, value) of the variant on the value in slot v: what it
\* returns, and the memory after the call.
sharedSet(buf, cc, v, keys, value) ==
    IF v = Nil \/ value = Nil \/ keys = <<>>
    THEN [b |-> buf, c |-> cc, v |-> Nil]
    ELSE IF Len(keys) = 1 THEN setNoRecurse(buf, cc, v, keys[1], value)
    ELSE sharedSetInto(valueGet(buf, cc, v, <<keys[1]>>), v, keys, value)

------------------------------------------------------------------------------
(* Building values with the parser's cache (part_014, lines 154-317)       *)

\* p.NewNull(): the slot that getValue returns, with its type set.
parserNewNull(buf, cc) ==
    [b |-> buf,
     c |-> [cacheGetValue(cc) EXCEPT !.vs[cacheGetValue(cc).len].t = TypeNull],
     v |-> cacheGetValue(cc).len]

\* The loop of Parser.NewObject over the pairs m that are left, in the
\* order in which range yields them: kv := o.o.getKV(); kv.k = k; kv.v = v.
RECURSIVE newObjectFrom(_, _, _, _)
newObjectFrom(buf, cc, v, m) ==
    IF m = <<>> THEN [b |-> buf, c |-> cc, v |-> v]
    ELSE newObjectFrom(NewHeapString(buf, m[1].k).buf,
                       objectAppend(cc, v, NewHeapString(buf, m[1].k).s,
                                    m[1].v),
                       v, Tail(m))

\* p.NewObject(m): o := p.c.getValue(); o.t = TypeObject; the loop.
parserNewObject(buf, cc, m) ==
    newObjectFrom(buf,
                  [cacheGetValue(cc) EXCEPT
                      !.vs[cacheGetValue(cc).len].t = TypeObject],
                  cacheGetValue(cc).len, m)

------------------------------------------------------------------------------
(* The typed getters (parser.go, Value.GetObject to Value.GetBool)         *)

\* fastfloat.ParseInt64BestEffort(s) for a string too short to overflow:
\* the value of an optional minus and decimal digits, 0 for anything else.
ParseInt64BestEffort(s) ==
    IF s # <<>> /\ s[1] # Ch.plus /\ ~Atoi(s).err THEN Atoi(s).n ELSE 0

\* fastfloat.ParseUint64BestEffort(s) for a string too short to overflow:
\* the value of decimal digits, 0 for anything else.
ParseUint64BestEffort(s) ==
    IF s # <<>> /\ s[1] \notin {Ch.plus, Ch.minus} /\ ~Atoi(s).err
    THEN Atoi(s).n ELSE 0

\* fastfloat.ParseBestEffort(s) for the text of an integer, which is the
\* only kind of number that the documents below hold.
ParseBestEffort(s) == ParseInt64BestEffort(s)

\* The zero values that the getters return.
NilBytes == [nil |-> TRUE, s |-> <<>>]
NilArray == [nil |-> TRUE, a |-> <<>>]

GetterKinds ==
    {"GetObject", "GetArray", "GetFloat64", "GetInt", "GetUint", "GetInt64",
     "GetUint64", "GetStringBytes", "GetBool"}

GetterZero(kind) ==
    IF kind = "GetObject" THEN Nil
    ELSE IF kind = "GetArray" THEN NilArray
    ELSE IF kind = "GetStringBytes" THEN NilBytes
    ELSE IF kind = "GetBool" THEN FALSE
    ELSE 0

\* The type that the getter wants the value to have.
GetterType(kind) ==
    IF kind = "GetObject" THEN TypeObject
    ELSE IF kind = "GetArray" THEN TypeArray
    ELSE IF kind = "GetStringBytes" THEN TypeString
    ELSE IF kind = "GetBool" THEN TypeTrue
    ELSE TypeNumber

\* A getter that takes a value of any type.
typeDiffers_Never(t, want) == FALSE

\* v.Type() != TypeNumber, v.t != TypeObject and the like.
typeDiffers(t, want) == t # want

\* What the getter returns for the value in slot v, which has the type it
\* wants, in the memory buf, cc.
getterValue(kind, buf, cc, v) ==
    IF kind = "GetObject" THEN v
    ELSE IF kind = "GetArray" THEN [nil |-> FALSE, a |-> cc.vs[v].a]
    ELSE IF kind = "GetStringBytes"
    THEN [nil |-> FALSE, s |-> Bytes(buf, cc.vs[v].s)]
    ELSE IF kind = "GetBool" THEN TRUE
    ELSE IF kind = "GetFloat64" THEN ParseBestEffort(Bytes(buf, cc.vs[v].s))
    ELSE IF kind \in {"GetUint", "GetUint64"}
    THEN ParseUint64BestEffort(Bytes(buf, cc.vs[v].s))
    ELSE ParseInt64BestEffort(Bytes(buf, cc.vs[v].s))

\* The getters that compare v.t: GetObject, GetArray and GetBool, g being
\* what v.Get(keys...) returned.
getterPlain(kind, g) ==
    IF g.v = Nil \/ typeDiffers(g.c.vs[g.v].t, GetterType(kind))
    THEN [b |-> g.b, c |-> g.c, val |-> GetterZero(kind)]
    ELSE [b |-> g.b, c |-> g.c, val |-> getterValue(kind, g.b, g.c, g.v)]

\* The getters that call v.Type(), which unescapes a string on its first
\* call, ty being what the call returned.
getterTyped(kind, g, ty) ==
    IF typeDiffers(ty.t, GetterType(kind))
    THEN [b |-> ty.b, c |-> ty.c, val |-> GetterZero(kind)]
    ELSE [b |-> ty.b, c |-> ty.c, val |-> getterValue(kind, ty.b, ty.c, g.v)]

\* The getter after v = v.Get(keys...) returned g.
getterInto(kind, g) ==
    IF kind \in {"GetObject", "GetArray", "GetBool"} THEN getterPlain(kind, g)
    ELSE IF g.v = Nil THEN [b |-> g.b, c |-> g.c, val |-> GetterZero(kind)]
    ELSE getterTyped(kind, g, valueType(g.b, g.c, g.v))

\* v.GetInt(keys...) and the other getters on the value in slot v, which
\* may be nil: the value returned, and the memory after the call.
valueGetTyped(kind, buf, cc, v, keys) ==
    getterInto(kind, valueGet(buf, cc, v, keys))

------------------------------------------------------------------------------
(* The strict validator (validate.go) *)

\* validate.go is written against the tokenizer primitives that return the
\* unparsed tail: a tail is the index at which it starts in s.

\* skipWS(s[i:]): the index at which the returned tail starts.
validate_skipWS(s, i) ==
    IF Len(s) - i = 0 \/ At(s, i) > 32 THEN i
    ELSE IF ~IsWS(At(s, i)) THEN i
    ELSE LET idx == {j \in i + 1 .. Len(s) - 1 : ~IsWS(At(s, j))}
         IN  IF idx = {} THEN Len(s) ELSE Min(idx)

\* parseRawString(s[from:]): the raw string (rs) and the tail.
RECURSIVE validate_parseRawStringSlow(_, _, _, _)
validate_parseRawStringSlow(s, from, cur, n) ==
    LET i == Min({j \in 0 .. n - 1 :
                    \A k \in j .. n - 2 : At(s, cur + k) = Ch.backslash})
    IN  IF (n - i) % 2 = 0
        THEN [rs |-> View(from, cur - from + n), tail |-> cur + n + 1,
              err |-> FALSE]
        ELSE LET cur2 == cur + n + 1
                 n2 == IndexByteFrom(s, cur2, Ch.quote)
             IN  IF n2 < 0
                 THEN [rs |-> View(from, Len(s) - from), tail |-> Len(s),
                       err |-> TRUE]
                 ELSE IF n2 = 0 \/ At(s, cur2 + n2 - 1) # Ch.backslash
                 THEN [rs |-> View(from, cur2 - from + n2),
                       tail |-> cur2 + n2 + 1, err |-> FALSE]
                 ELSE validate_parseRawStringSlow(s, from, cur2, n2)

validate_parseRawString(s, from) ==
    LET n == IndexByteFrom(s, from, Ch.quote)
    IN  IF n < 0
        THEN [rs |-> View(from, Len(s) - from), tail |-> Len(s), err |-> TRUE]
        ELSE IF n = 0 \/ At(s, from + n - 1) # Ch.backslash
        THEN [rs |-> View(from, n), tail |-> from + n + 1, err |-> FALSE]
        ELSE validate_parseRawStringSlow(s, from, from, n)

\* The slow path of validateString: rs == s[r:end] starts right after a
\* backslash.  TRUE iff every escape sequence is valid.
RECURSIVE validateEscapes(_, _, _)
validateEscapes(s, r, end) ==
    IF r >= end THEN TRUE
    ELSE
    LET ch == At(s, r)
        r1 == IF ch = Ch.u THEN r + 5 ELSE r + 1
        ok == IF ch \in {Ch.quote, Ch.backslash, Ch.slash, Ch.bb, Ch.f,
                         Ch.n, Ch.r, Ch.t}
              THEN TRUE
              ELSE IF ch = Ch.u
              THEN end - (r + 1) >= 4
                   /\ ParseUint16(Slice(s, r + 1, r + 5)) >= 0
              ELSE FALSE
    IN  IF ~ok THEN FALSE
        ELSE LET idx == {i \in r1 .. end - 1 : At(s, i) = Ch.backslash}
             IN  IF idx = {} THEN TRUE
                 ELSE validateEscapes(s, Min(idx) + 1, end)

\* validateString after parseRawString returned p == (rs, tail, err).
validateRawString(s, p) ==
    LET end == p.rs.off + p.rs.len
        idx == {i \in p.rs.off .. end - 1 : At(s, i) = Ch.backslash}
    IN  IF p.err THEN [tail |-> p.tail, err |-> TRUE]
        ELSE IF idx = {} THEN [tail |-> p.tail, err |-> FALSE]
        ELSE [tail |-> p.tail,
              err |-> ~validateEscapes(s, Min(idx) + 1, end)]

\* validateString(s[from:]), from being the index after the opening quote.
validateString(s, from) ==
    validateRawString(s, validate_parseRawString(s, from))

\* The index of the first byte of s[from:] that is not a digit.
DigitsEnd(s, from) ==
    LET idx == {i \in from .. Len(s) - 1 :
                    At(s, i) < Ch.zero \/ At(s, i) > Ch.nine}
    IN  IF idx = {} THEN Len(s) ELSE Min(idx)

validateExponent(s, i) ==
    IF At(s, i) = Ch.e \/ At(s, i) = Ch.E
    THEN LET s1 == i + 1
         IN  IF Len(s) - s1 = 0 THEN [tail |-> s1, err |-> TRUE]
             ELSE
             LET s2 == IF At(s, s1) = Ch.minus \/ At(s, s1) = Ch.plus
                       THEN s1 + 1 ELSE s1
             IN  IF Len(s) - s2 = 0 THEN [tail |-> s2, err |-> TRUE]
                 ELSE LET j == DigitsEnd(s, s2)
                      IN  IF j = s2 THEN [tail |-> s2, err |-> TRUE]
                          ELSE [tail |-> j, err |-> FALSE]
    ELSE [tail |-> i, err |-> FALSE]

validateFraction(s, i) ==
    IF At(s, i) = Ch.dot
    THEN LET s1 == i + 1
         IN  IF Len(s) - s1 = 0 THEN [tail |-> s1, err |-> TRUE]
             ELSE LET j == DigitsEnd(s, s1)
                  IN  IF j = s1 THEN [tail |-> s1, err |-> TRUE]
                      ELSE IF j >= Len(s) THEN [tail |-> Len(s), err |-> FALSE]
                      ELSE validateExponent(s, j)
    ELSE validateExponent(s, i)

validateNumber(s, from) ==
    IF Len(s) - from = 0 THEN [tail |-> from, err |-> TRUE]
    ELSE
    LET s0 == IF At(s, from) = Ch.minus THEN from + 1 ELSE from
    IN  IF Len(s) - s0 = 0 THEN [tail |-> s0, err |-> TRUE]
        ELSE
        LET i == DigitsEnd(s, s0)
        IN  IF i = s0 THEN [tail |-> s0, err |-> TRUE]
            ELSE IF i >= Len(s) THEN [tail |-> Len(s), err |-> FALSE]
            ELSE IF At(s, s0) = Ch.zero /\ i - s0 # 1
            THEN [tail |-> s0, err |-> TRUE]
            ELSE validateFraction(s, i)

RECURSIVE validateValue(_, _)
RECURSIVE validateArrayLoop(_, _)
RECURSIVE validateArrayNext(_, _)
RECURSIVE validateObjectLoop(_, _)
RECURSIVE validateObjectKey(_, _)
RECURSIVE validateObjectNext(_, _)

validateArray(s, from) ==
    LET i == validate_skipWS(s, from)
    IN  IF Len(s) - i = 0 THEN [tail |-> i, err |-> TRUE]
        ELSE IF At(s, i) = Ch.rbrack THEN [tail |-> i + 1, err |-> FALSE]
        ELSE validateArrayLoop(s, i)

\* The head of the loop: skip whitespace and validate the next element.
validateArrayLoop(s, from) ==
    validateArrayNext(s, validateValue(s, validate_skipWS(s, from)))

\* The loop after validateValue returned r.
validateArrayNext(s, r) ==
    LET i == validate_skipWS(s, r.tail)
    IN  IF r.err THEN r
        ELSE IF Len(s) - i = 0 THEN [tail |-> i, err |-> TRUE]
        ELSE IF At(s, i) = Ch.comma THEN validateArrayLoop(s, i + 1)
        ELSE IF At(s, i) = Ch.rbrack THEN [tail |-> i + 1, err |-> FALSE]
        ELSE [tail |-> i, err |-> TRUE]

validateObject(s, from) ==
    LET i == validate_skipWS(s, from)
    IN  IF Len(s) - i = 0 THEN [tail |-> i, err |-> TRUE]
        ELSE IF At(s, i) = Ch.rbrace THEN [tail |-> i + 1, err |-> FALSE]
        ELSE validateObjectLoop(s, i)

\* The head of the loop: the key.
validateObjectLoop(s, from) ==
    LET i == validate_skipWS(s, from)
    IN  IF Len(s) - i = 0 \/ At(s, i) # Ch.quote
        THEN [tail |-> i, err |-> TRUE]
        ELSE validateObjectKey(s, validateString(s, i + 1))

\* The loop after validateString returned k: the ':' and the value.
validateObjectKey(s, k) ==
    LET j == validate_skipWS(s, k.tail)
    IN  IF k.err THEN k
        ELSE IF Len(s) - j = 0 \/ At(s, j) # Ch.colon
        THEN [tail |-> j, err |-> TRUE]
        ELSE validateObjectNext(s,
                validateValue(s, validate_skipWS(s, j + 1)))

\* The loop after validateValue returned r.
validateObjectNext(s, r) ==
    LET m == validate_skipWS(s, r.tail)
    IN  IF r.err THEN r
        ELSE IF Len(s) - m = 0 THEN [tail |-> m, err |-> TRUE]
        ELSE IF At(s, m) = Ch.comma THEN validateObjectLoop(s, m + 1)
        ELSE IF At(s, m) = Ch.rbrace THEN [tail |-> m + 1, err |-> FALSE]
        ELSE [tail |-> m, err |-> TRUE]

validateValue(s, from) ==
    IF Len(s) - from = 0 THEN [tail |-> from, err |-> TRUE]
    ELSE IF At(s, from) = Ch.lbrace THEN validateObject(s, from + 1)
    ELSE IF At(s, from) = Ch.lbrack THEN validateArray(s, from + 1)
    ELSE IF At(s, from) = Ch.quote THEN validateString(s, from + 1)
    ELSE IF At(s, from) = Ch.t
    THEN IF HasPrefixAt(s, from, StrTrue)
         THEN [tail |-> from + Len(StrTrue), err |-> FALSE]
         ELSE [tail |-> from, err |-> TRUE]
    ELSE IF At(s, from) = Ch.f
    THEN IF HasPrefixAt(s, from, StrFalse)
         THEN [tail |-> from + Len(StrFalse), err |-> FALSE]
         ELSE [tail |-> from, err |-> TRUE]
    ELSE IF At(s, from) = Ch.n
    THEN IF HasPrefixAt(s, from, StrNull)
         THEN [tail |-> from + Len(StrNull), err |-> FALSE]
         ELSE [tail |-> from, err |-> TRUE]
    ELSE validateNumber(s, from)

\* Validate after validateValue returned r: TRUE iff Validate returns nil.
validateTail(s, r) == ~r.err /\ Len(s) - validate_skipWS(s, r.tail) = 0

\* Validate(s): TRUE iff it returns nil.
Validate(s) == validateTail(s, validateValue(s, validate_skipWS(s, 0)))

------------------------------------------------------------------------------
(* ValidateParser: the parser that validates while it parses.  Its         *)
(* functions return the tree together with the unparsed tail; what is      *)
(* modelled here is the tail and whether an error is returned.             *)

\* The escape loop of parseValidateRawString: rs == s[r:end], r being the
\* index after a backslash.  TRUE iff every escape sequence is valid.
RECURSIVE parseValidateEscapes(_, _, _)
parseValidateEscapes(s, r, end) ==
    IF r >= end THEN FALSE
    ELSE
    LET ch == At(s, r)
        r1 == IF ch = Ch.u THEN r + 5 ELSE r + 1
        ok == IF ch \in {Ch.quote, Ch.backslash, Ch.slash, Ch.bb, Ch.f,
                         Ch.n, Ch.r, Ch.t}
              THEN TRUE
              ELSE IF ch = Ch.u
              THEN end - (r + 1) >= 4
                   /\ ParseUint16(Slice(s, r + 1, r + 5)) >= 0
              ELSE FALSE
    IN  IF ~ok THEN FALSE
        ELSE LET idx == {i \in r1 .. end - 1 : At(s, i) = Ch.backslash}
             IN  IF idx = {} THEN TRUE
                 ELSE parseValidateEscapes(s, Min(idx) + 1, end)

\* The slow path of parseValidateRawString after parseRawString returned p.
parseValidateRawStringSlow(s, p) ==
    LET end == p.rs.off + p.rs.len
        idx == {i \in p.rs.off .. end - 1 : At(s, i) = Ch.backslash}
    IN  IF p.err THEN p
        ELSE IF idx = {} THEN p
        ELSE [p EXCEPT !.err = ~parseValidateEscapes(s, Min(idx) + 1, end)]

\* parseValidateRawString(s[from:]): the raw string (rs), the tail, the error.
parseValidateRawString(s, from) ==
    LET n == IndexByteFrom(s, from, Ch.quote)
    IN  IF n >= 0 /\ \A i \in from .. from + n - 1 : At(s, i) # Ch.backslash
        THEN [rs |-> View(from, n), tail |-> from + n + 1, err |-> FALSE]
        ELSE parseValidateRawStringSlow(s, validate_parseRawString(s, from))

\* parseValidateRawKey(s[from:]): the first quote or backslash decides.
parseValidateRawKey(s, from) ==
    LET idx == {i \in from .. Len(s) - 1 :
                    At(s, i) = Ch.quote \/ At(s, i) = Ch.backslash}
    IN  IF idx = {}
        THEN [rs |-> View(from, Len(s) - from), tail |-> Len(s), err |-> TRUE]
        ELSE IF At(s, Min(idx)) = Ch.quote
        THEN [rs |-> View(from, Min(idx) - from), tail |-> Min(idx) + 1,
              err |-> FALSE]
        ELSE parseValidateRawString(s, from)

\* The scan of a string value for control chars, after
\* parseValidateRawString returned p.
parseValidateStringValue(s, p) ==
    IF p.err THEN [tail |-> p.tail, err |-> TRUE]
    ELSE IF \E i \in p.rs.off .. p.rs.off + p.rs.len - 1 : At(s, i) < 32
    THEN [tail |-> p.tail, err |-> TRUE]
    ELSE [tail |-> p.tail, err |-> FALSE]

\* parseValidateRawNumber(s[from:]); the fractional and the exponent part
\* are checked by the same statements as in validateNumber.
parseValidateRawNumber(s, from) ==
    IF Len(s) - from = 0 THEN [tail |-> from, err |-> TRUE]
    ELSE
    LET j == IF At(s, from) = Ch.minus THEN from + 1 ELSE from
    IN  IF Len(s) = j THEN [tail |-> from, err |-> TRUE]
        ELSE
        LET i == DigitsEnd(s, j)
        IN  IF j = i THEN [tail |-> from, err |-> TRUE]
            ELSE IF At(s, j) = Ch.zero /\ i - j # 1
            THEN [tail |-> from, err |-> TRUE]
            ELSE IF i >= Len(s) THEN [tail |-> Len(s), err |-> FALSE]
            ELSE validateFraction(s, i)

\* The 'n' branch of parseValidateValue: null, or else NaN in any case of
\* its last two letters.
parseValidateNull(s, from) ==
    IF HasPrefixAt(s, from, StrNull)
    THEN [tail |-> from + Len(StrNull), err |-> FALSE]
    ELSE IF Len(s) - from >= 3 /\ EqualFold(Slice(s, from, from + 3), StrNan)
    THEN [tail |-> from + 3, err |-> FALSE]
    ELSE [tail |-> from, err |-> TRUE]

\* A depth check that never fails.
parseValidateDepthExceeded_Never(depth) == FALSE

\* depth++; if depth > MaxDepth, at the start of parseValidateValue.
parseValidateDepthExceeded(depth) == depth + 1 > MaxDepth

RECURSIVE parseValidateValue(_, _, _)
RECURSIVE parseValidateArrayLoop(_, _, _)
RECURSIVE parseValidateArrayNext(_, _, _)
RECURSIVE parseValidateObjectLoop(_, _, _)
RECURSIVE parseValidateObjectKey(_, _, _)
RECURSIVE parseValidateObjectNext(_, _, _)

parseValidateArray(s, from, depth) ==
    LET i == validate_skipWS(s, from)
    IN  IF Len(s) - i = 0 THEN [tail |-> i, err |-> TRUE]
        ELSE IF At(s, i) = Ch.rbrack THEN [tail |-> i + 1, err |-> FALSE]
        ELSE parseValidateArrayLoop(s, i, depth)

\* The head of the loop: skip whitespace and parse the next element.
parseValidateArrayLoop(s, from, depth) ==
    parseValidateArrayNext(s,
        parseValidateValue(s, validate_skipWS(s, from), depth), depth)

\* The loop after parseValidateValue returned r.
parseValidateArrayNext(s, r, depth) ==
    LET i == validate_skipWS(s, r.tail)
    IN  IF r.err THEN r
        ELSE IF Len(s) - i = 0 THEN [tail |-> i, err |-> TRUE]
        ELSE IF At(s, i) = Ch.comma
        THEN parseValidateArrayLoop(s, i + 1, depth)
        ELSE IF At(s, i) = Ch.rbrack THEN [tail |-> i + 1, err |-> FALSE]
        ELSE [tail |-> i, err |-> TRUE]

parseValidateObject(s, from, depth) ==
    LET i == validate_skipWS(s, from)
    IN  IF Len(s) - i = 0 THEN [tail |-> i, err |-> TRUE]
        ELSE IF At(s, i) = Ch.rbrace THEN [tail |-> i + 1, err |-> FALSE]
        ELSE parseValidateObjectLoop(s, i, depth)

\* The head of the loop: the key.
parseValidateObjectLoop(s, from, depth) ==
    LET i == validate_skipWS(s, from)
    IN  IF Len(s) - i = 0 \/ At(s, i) # Ch.quote
        THEN [tail |-> i, err |-> TRUE]
        ELSE parseValidateObjectKey(s, parseValidateRawKey(s, i + 1), depth)

\* The loop after parseValidateRawKey returned k: the ':' and the value.
parseValidateObjectKey(s, k, depth) ==
    LET j == validate_skipWS(s, k.tail)
    IN  IF k.err THEN [tail |-> k.tail, err |-> TRUE]
        ELSE IF Len(s) - j = 0 \/ At(s, j) # Ch.colon
        THEN [tail |-> j, err |-> TRUE]
        ELSE parseValidateObjectNext(s,
                parseValidateValue(s, validate_skipWS(s, j + 1), depth),
                depth)

\* The loop after parseValidateValue returned r.
parseValidateObjectNext(s, r, depth) ==
    LET m == validate_skipWS(s, r.tail)
    IN  IF r.err THEN r
        ELSE IF Len(s) - m = 0 THEN [tail |-> m, err |-> TRUE]
        ELSE IF At(s, m) = Ch.comma
        THEN parseValidateObjectLoop(s, m + 1, depth)
        ELSE IF At(s, m) = Ch.rbrace THEN [tail |-> m + 1, err |-> FALSE]
        ELSE [tail |-> m, err |-> TRUE]

parseValidateValue(s, from, depth) ==
    IF Len(s) - from = 0 THEN [tail |-> from, err |-> TRUE]
    ELSE IF parseValidateDepthExceeded(depth) THEN [tail |-> from, err |-> TRUE]
    ELSE IF At(s, from) = Ch.lbrace
    THEN parseValidateObject(s, from + 1, depth + 1)
    ELSE IF At(s, from) = Ch.lbrack
    THEN parseValidateArray(s, from + 1, depth + 1)
    ELSE IF At(s, from) = Ch.quote
    THEN parseValidateStringValue(s, parseValidateRawString(s, from + 1))
    ELSE IF At(s, from) = Ch.t
    THEN IF HasPrefixAt(s, from, StrTrue)
         THEN [tail |-> from + Len(StrTrue), err |-> FALSE]
         ELSE [tail |-> from, err |-> TRUE]
    ELSE IF At(s, from) = Ch.f
    THEN IF HasPrefixAt(s, from, StrFalse)
         THEN [tail |-> from + Len(StrFalse), err |-> FALSE]
         ELSE [tail |-> from, err |-> TRUE]
    ELSE IF At(s, from) = Ch.n THEN parseValidateNull(s, from)
    ELSE parseValidateRawNumber(s, from)

\* ValidateParser.Parse(s): TRUE iff it returns a nil error.
ValidateParserParse(s) ==
    validateTail(s, parseValidateValue(s, validate_skipWS(s, 0), 0))

------------------------------------------------------------------------------
(* Specification Spec: one parser, one Parse of a string the caller has     *)
(* composed, then reads of the tree and a final MarshalTo.                 *)

MaxTok == 5

\* The chunks the caller composes its input from: one of these sets per run.
\*   [  ]  ,  space  1  "a"  true  null
ArrayTokens ==
    { <<91>>, <<93>>, <<44>>, <<32>>, <<49>>, <<34, 97, 34>>,
      StrTrue, StrNull }
\*   {  }  ,  :  space  "a"  1
ObjectTokens ==
    { <<123>>, <<125>>, <<44>>, <<58>>, <<32>>, <<34, 97, 34>>, <<49>> }
\*   "  \  a  n  u0001  u0  space
StringTokens ==
    { <<34>>, <<92>>, <<97>>, <<110>>, <<117, 48, 48, 48, 49>>,
      <<117, 48>>, <<32>> }
\*   {  }  ,  "a":1  "a":2  "a":3  "b":"c"
EntryTokens ==
    { <<123>>, <<125>>, <<44>>,
      <<34, 97, 34, 58, 49>>,
      <<34, 92, 117, 48, 48, 54, 49, 34, 58, 50>>,
      <<34, 97, 34, 58, 51>>,
      <<34, 98, 34, 58, 34, 99, 34>> }
\*   -  0  1  .  e  [  ]  ,
NumberTokens ==
    { <<45>>, <<48>>, <<49>>, <<46>>, <<101>>, <<91>>, <<93>>, <<44>> }
TokenSets ==
    <<ArrayTokens, ObjectTokens, StringTokens, EntryTokens, NumberTokens>>

\* The keys the caller looks up:  a  b  z  a
LookupKeys == { <<97>>, <<98>>, <<122>>, <<92, 117, 48, 48, 54, 49>> }

NoRet  == [v |-> Nil, err |-> ErrNone, panic |-> FALSE]
NoRead == [op |-> "none"]
NoDst  == [v |-> Nil, out |-> <<>>]
NoOld  == [b |-> <<>>, c |-> ZeroCache, v |-> Nil]
NoRes  == [v |-> Nil, tail |-> 0, err |-> FALSE, panic |-> FALSE]
NoScanner == [s |-> 0, base |-> 0, err |-> ErrNone, v |-> Nil, panic |-> FALSE]
NoCall == [frames |-> <<>>, offset |-> 0, res |-> NoRes, why |-> ErrNone]

Init ==
    /\ input = <<>>
    /\ fed = 0
    /\ toks \in 1 .. Len(TokenSets)
    /\ pc = "new"
    /\ b = <<>>
    /\ c = ZeroCache
    /\ ret = NoRet
    /\ dst = NoDst
    /\ aux = NoRead
    /\ old = NoOld
    /\ call = NoCall
    /\ sc = NoScanner

\* The caller appends one more chunk to the string it is going to parse.
Feed(tok) ==
    /\ pc = "new"
    /\ fed < MaxTok
    /\ input' = input \o tok
    /\ fed' = fed + 1
    /\ UNCHANGED <<toks, pc, b, c, ret, dst, aux, old, call, sc>>

\* v, err := p.Parse(input)
Parse ==
    /\ pc = "new"
    /\ \E r \in {ParserParse(input, b, c)} :
           /\ b' = r.b
           /\ c' = r.c
           /\ ret' = [v |-> r.v, err |-> r.err, panic |-> r.panic]
    /\ pc' = "parsed"
    /\ UNCHANGED <<input, fed, toks, dst, aux, old, call, sc>>

Readable == pc \in {"parsed", "read"} /\ ret.v # Nil

\* vv.Type() on a value vv of the tree.
Type(vv) ==
    /\ Readable
    /\ \E r \in {valueType(b, c, vv)} :
           /\ b' = r.b
           /\ c' = r.c
           /\ aux' = [op |-> "Type", v |-> vv, t |-> r.t]
    /\ pc' = "read"
    /\ UNCHANGED <<input, fed, toks, ret, dst, old, call, sc>>

\* o.Get(key) on an object o of the tree.
Get(o, key) ==
    /\ Readable
    /\ c.vs[o].t = TypeObject
    /\ \E r \in {objectGet(b, c, o, key)} :
           /\ b' = r.b
           /\ c' = r.c
           /\ aux' = [op |-> "Get", o |-> o, key |-> key, v |-> r.v]
    /\ pc' = "read"
    /\ UNCHANGED <<input, fed, toks, ret, dst, old, call, sc>>

\* o.Visit(f) on an object o of the tree.
Visit(o) ==
    /\ Readable
    /\ c.vs[o].t = TypeObject
    /\ \E r \in {objectVisit(b, c, o)} :
           /\ b' = r.b
           /\ c' = r.c
           /\ aux' = [op |-> "Visit", o |-> o, trace |-> r.trace]
    /\ pc' = "read"
    /\ UNCHANGED <<input, fed, toks, ret, dst, old, call, sc>>

\* vv.MarshalTo(nil), which is also what vv.String() returns.
MarshalTo(vv) ==
    /\ Readable
    /\ dst' = [v |-> vv, out |-> valueMarshalTo(<<>>, b, c, vv)]
    /\ pc' = "marshaled"
    /\ UNCHANGED <<input, fed, toks, b, c, ret, aux, old, call, sc>>

Next ==
    \/ \E tok \in TokenSets[toks] : Feed(tok)
    \/ Parse
    \/ \E vv \in 1 .. c.len : Type(vv)
    \/ \E o \in 1 .. c.len, key \in LookupKeys : Get(o, key)
    \/ \E o \in 1 .. c.len : Visit(o)
    \/ \E vv \in 1 .. c.len : MarshalTo(vv)

Spec == Init /\ [][Next]_vars

------------------------------------------------------------------------------
(* Specification SpecReuse: the caller reads the tree and then calls Parse   *)
(* again on the same parser, with another document.                        *)

\* The documents of the second Parse:  1  [2,"b"]  {"k":[]}  [1  (space)"x"
ReuseDocs ==
    { <<49>>,
      <<91, 50, 44, 34, 98, 34, 93>>,
      <<123, 34, 107, 34, 58, 91, 93, 125>>,
      <<91, 49>>,
      <<32, 34, 120, 34>> }

\* The longest first document, in chunks, after which Parse is called again.
MaxFirstTok == 4

\* v, err := p.Parse(d) on the parser that has parsed input before.
Reparse(d) ==
    /\ pc \in {"parsed", "read"}
    /\ fed <= MaxFirstTok
    /\ old' = [b |-> b, c |-> c, v |-> ret.v]
    /\ input' = d
    /\ \E r \in {ParserParse(d, b, c)} :
           /\ b' = r.b
           /\ c' = r.c
           /\ ret' = [v |-> r.v, err |-> r.err, panic |-> r.panic]
    /\ aux' = NoRead
    /\ pc' = "reparsed"
    /\ UNCHANGED <<fed, toks, dst, call, sc>>

NextReuse ==
    \/ \E tok \in TokenSets[toks] : Feed(tok)
    \/ Parse
    \/ \E vv \in 1 .. c.len : Type(vv)
    \/ \E o \in 1 .. c.len : Visit(o)
    \/ \E d \in ReuseDocs : Reparse(d)

SpecReuse == Init /\ [][NextReuse]_vars

------------------------------------------------------------------------------
(* Specification SpecDepth: Parse runs in steps on deeply nested documents. *)
(* The calls of parseValue that are in progress are kept in call.frames,   *)
(* one frame for each parseArray or parseObject whose loop is running:     *)
(* the kind t, its start_offset and its value v.  call.offset is the       *)
(* offset of the innermost loop, call.res what parseValue last returned.   *)

\* No loop is entered or continued.
NoLoop(cc) == [call |-> FALSE, offset |-> 0, c |-> cc]

\* The head of the loop of parseArray (t = TypeArray) or parseObject up to
\* its call of parseValue: the offset and the cache of that call, or
\* call = FALSE when the loop returns with an error before the call.
loopHead(s, t, offset0, cc, v) ==
    LET offset == SkipFrom(s, offset0)
        k      == parseRawKey(s, offset)
        colon  == SkipFrom(s, offset + k.n)
        c0     == [cc EXCEPT !.vs[v].o = objectGetKV(@)]
    IN  IF t = TypeArray THEN [call |-> TRUE, offset |-> offset, c |-> cc]
        ELSE IF Len(s) - offset = 0 \/ At(s, offset) # Ch.quote THEN NoLoop(cc)
        ELSE IF k.err THEN NoLoop(cc)
        ELSE IF colon >= Len(s) \/ At(s, colon) # Ch.colon THEN NoLoop(cc)
        ELSE [call |-> TRUE, offset |-> SkipFrom(s, colon + 1),
              c |-> [c0 EXCEPT !.vs[v].o.kvs[c0.vs[v].o.len].k = k.str]]

\* parseValue(s, offset, cc, depth) up to the first call of parseValue in
\* the loop of parseArray or parseObject, if it gets there.
enterLoop(s, offset, cc, depth) ==
    IF offset >= Len(s) \/ depthExceeded(depth) THEN NoLoop(cc)
    ELSE IF SkipFrom(s, offset + 1) >= Len(s) THEN NoLoop(cc)
    ELSE IF At(s, offset) = Ch.lbrack
            /\ At(s, SkipFrom(s, offset + 1)) # Ch.rbrack
    THEN loopHead(s, TypeArray, SkipFrom(s, offset + 1),
                  NewArray(cc, offset), cc.len + 1)
    ELSE IF At(s, offset) = Ch.lbrace
            /\ At(s, SkipFrom(s, offset + 1)) # Ch.rbrace
    THEN loopHead(s, TypeObject, SkipFrom(s, offset + 1),
                  NewObject(cc, offset), cc.len + 1)
    ELSE NoLoop(cc)

\* The loop of the frame f after parseValue returned r at offset: on ','
\* the value is kept and the loop goes to its head again.
loopNext(s, f, offset, r) ==
    IF r.panic \/ r.err THEN NoLoop(r.c)
    ELSE IF ~SliceOK(s, offset + r.c.vs[r.v].dl) THEN NoLoop(r.c)
    ELSE IF SkipFrom(s, offset + r.c.vs[r.v].dl) >= Len(s) THEN NoLoop(r.c)
    ELSE IF At(s, SkipFrom(s, offset + r.c.vs[r.v].dl)) # Ch.comma
    THEN NoLoop(r.c)
    ELSE loopHead(s, f.t, SkipFrom(s, offset + r.c.vs[r.v].dl) + 1,
                  IF f.t = TypeArray
                  THEN [r.c EXCEPT !.vs[f.v].a = Append(@, r.v)]
                  ELSE [r.c EXCEPT
                           !.vs[f.v].o.kvs[r.c.vs[f.v].o.len].v = r.v],
                  f.v)

\* What the parseValue of the frame f returns when its loop ends after
\* parseValue returned r at offset.
loopReturn(s, f, offset, r, depth) ==
    parseValueNested(s, f.start_offset,
        IF f.t = TypeArray
        THEN parseArrayElem(s, f.start_offset, offset, r, depth, f.v)
        ELSE parseObjectValue(s, f.start_offset, offset, r, depth, f.v))

\* Wrappers of one level of nesting:  [ ]   {"a": }   [(space) (newline)]
Wrappers ==
    { << <<91>>, <<93>> >>,
      << <<123, 34, 97, 34, 58>>, <<125>> >>,
      << <<91, 32>>, <<10, 93>> >> }

\* The innermost values:  []  {}  1  "x"
Leaves == { <<91, 93>>, <<123, 125>>, <<49>>, <<34, 120, 34>> }

\* How many levels past MaxDepth the documents go.
Over == 2

Nestings == (MaxDepth - 2) .. (MaxDepth + Over - 1)

\* The leaf inside n wrappers: a document nested n + 1 levels deep.
Nested(w, leaf, n) ==
    [i \in 1 .. n * Len(w[1]) |-> w[1][((i - 1) % Len(w[1])) + 1]]
    \o leaf
    \o [i \in 1 .. n * Len(w[2]) |-> w[2][((i - 1) % Len(w[2])) + 1]]

InitDepth ==
    /\ input \in {Nested(w, leaf, n) :
                     w \in Wrappers, leaf \in Leaves, n \in Nestings}
    /\ fed = 1
    /\ toks = 1
    /\ pc = "new"
    /\ b = <<>>
    /\ c = ZeroCache
    /\ ret = NoRet
    /\ dst = NoDst
    /\ aux = NoRead
    /\ old = NoOld
    /\ call = NoCall
    /\ sc = NoScanner

\* Parser.Parse up to its call of parseValue.
ParseBegin ==
    /\ pc = "new"
    /\ b' = appendTo(b, SliceFrom(input, skipWS(input)))
    /\ c' = cacheReset(c)
    /\ call' = NoCall
    /\ pc' = "call"
    /\ UNCHANGED <<input, fed, toks, ret, dst, aux, old, sc>>

\* parseValue(s, call.offset, c, depth) is entered, depth being the number
\* of loops that are running.  It gets to the call of parseValue in the loop
\* of parseArray or parseObject, or it returns.
CallValue ==
    /\ pc = "call"
    /\ \E s \in {SliceFrom(input, skipWS(input))} :
       \E h \in {enterLoop(s, call.offset, c, Len(call.frames))} :
          IF h.call
          THEN /\ c' = h.c
               /\ call' = [call EXCEPT
                     !.frames = Append(@, [t |-> h.c.vs[c.len + 1].t,
                                           start_offset |-> call.offset,
                                           v |-> c.len + 1]),
                     !.offset = h.offset]
               /\ pc' = "call"
          ELSE \E r \in {parseValue(s, call.offset, c, Len(call.frames))} :
               /\ c' = r.c
               /\ call' = [call EXCEPT
                     !.res = [v |-> r.v, tail |-> r.tail,
                              err |-> r.err, panic |-> r.panic],
                     !.why = IF call.offset < Len(s)
                                /\ depthExceeded(Len(call.frames))
                             THEN ErrDepth ELSE @]
               /\ pc' = "ret"
    /\ UNCHANGED <<input, fed, toks, b, ret, dst, aux, old, sc>>

\* parseValue has returned call.res: to Parse, which returns, or to the
\* innermost loop, which goes on to its next call of parseValue or returns.
ReturnValue ==
    /\ pc = "ret"
    /\ \E s \in {SliceFrom(input, skipWS(input))} :
       \E r \in {[Ret(call.res.v, call.res.tail, call.res.err, c)
                    EXCEPT !.panic = call.res.panic]} :
          IF call.frames = <<>>
          THEN /\ \E p \in {ParseReturn(b, s, r)} :
                     ret' = [v |-> p.v, err |-> p.err, panic |-> p.panic]
               /\ pc' = "parsed"
               /\ UNCHANGED <<c, call, sc>>
          ELSE \E f \in {call.frames[Len(call.frames)]} :
               \E h \in {loopNext(s, f, call.offset, r)} :
                  IF h.call
                  THEN /\ c' = h.c
                       /\ call' = [call EXCEPT !.offset = h.offset,
                                               !.res = NoRes]
                       /\ pc' = "call"
                       /\ UNCHANGED ret
                  ELSE \E q \in {loopReturn(s, f, call.offset, r,
                                            Len(call.frames))} :
                       /\ c' = q.c
                       /\ call' = [call EXCEPT
                             !.frames = SubSeq(@, 1, Len(@) - 1),
                             !.offset = f.start_offset,
                             !.res = [v |-> q.v, tail |-> q.tail,
                                      err |-> q.err, panic |-> q.panic]]
                       /\ pc' = "ret"
                       /\ UNCHANGED ret
    /\ UNCHANGED <<input, fed, toks, b, dst, aux, old, sc>>

NextDepth == ParseBegin \/ CallValue \/ ReturnValue

SpecDepth == InitDepth /\ [][NextDepth]_vars

\* Parse in steps on the documents of Spec: the steps end with the parser
\* and the result that Parse gives in one go.
NextSteps ==
    \/ \E tok \in TokenSets[toks] : Feed(tok)
    \/ ParseBegin \/ CallValue \/ ReturnValue

SpecSteps == Init /\ [][NextSteps]_vars

StepsAgree ==
    pc = "parsed" =>
        /\ b = ParserParse(input, <<>>, ZeroCache).b
        /\ c = ParserParse(input, <<>>, ZeroCache).c
        /\ ret.v = ParserParse(input, <<>>, ZeroCache).v
        /\ ret.err = ParserParse(input, <<>>, ZeroCache).err
        /\ ret.panic = ParserParse(input, <<>>, ZeroCache).panic

------------------------------------------------------------------------------
(* Specification SpecScan: a Scanner over a string of several documents.   *)
(* The scanner keeps its own copy of the string in b and its values in c.  *)
(* sc.s is the offset in b of the cursor, sc.base the offset in b at which *)
(* the string of the current value starts: the views of the value count    *)
(* from there.                                                             *)

\* The chunks of a string of documents:
\*   [](space)  {}(space)  ""(space)  123  (newline)  true  s
\*   {"foo":  "bar"  }
ScanTokens ==
    { <<91, 93, 32>>, <<123, 125, 32>>, <<34, 34, 32>>, <<49, 50, 51>>,
      <<10>>, <<116, 114, 117, 101>>, <<115>>,
      <<123, 34, 102, 111, 111, 34, 58, 32, 32, 34, 98, 97, 114, 34, 32, 32,
        125>> }

InitScan ==
    /\ input = <<>>
    /\ fed = 0
    /\ toks = 1
    /\ pc = "new"
    /\ b = <<>>
    /\ c = ZeroCache
    /\ ret = NoRet
    /\ dst = NoDst
    /\ aux = NoRead
    /\ old = NoOld
    /\ call = NoCall
    /\ sc = NoScanner

\* A failed Next that stores no error.
scanFail_Forget(scn, at) == [scn EXCEPT !.s = at, !.v = Nil]

\* Next when parseValue failed at the offset at: the error is stored and
\* the current value is cleared.
scanFail(scn, at) == [scn EXCEPT !.s = at, !.err = ErrParse, !.v = Nil]

\* sc.Init(input)
ScanInit ==
    /\ pc = "new"
    /\ b' = appendTo(b, input)
    /\ sc' = NoScanner
    /\ pc' = "scan"
    /\ UNCHANGED <<input, fed, toks, c, ret, dst, aux, old, call>>

\* sc.Next(): false once an error is stored or when only whitespace is
\* left; otherwise one value is parsed at the cursor and the cursor moves
\* past it.
ScanNext ==
    /\ pc \in {"scan", "scanned"}
    /\ \E s \in {SliceFrom(Slice(b, sc.s, Len(input)),
                           skipWS(Slice(b, sc.s, Len(input))))} :
          IF sc.err # ErrNone \/ sc.panic
          THEN pc' = "scanned" /\ UNCHANGED <<c, sc>>
          ELSE IF Len(s) = 0
          THEN /\ sc' = [sc EXCEPT !.s = Len(input)]
               /\ pc' = "scanned"
               /\ UNCHANGED c
          ELSE \E r \in {parseValue(s, 0, cacheReset(c), 0)} :
               /\ c' = r.c
               /\ sc' = IF r.panic THEN [sc EXCEPT !.panic = TRUE]
                        ELSE IF r.err
                        THEN scanFail(sc, Len(input) - Len(s))
                        ELSE [s |-> Len(input) - Len(s) + r.tail,
                              base |-> Len(input) - Len(s),
                              err |-> ErrNone, v |-> r.v, panic |-> FALSE]
               /\ pc' = IF r.panic \/ r.err THEN "scanned" ELSE "value"
    /\ UNCHANGED <<input, fed, toks, b, ret, dst, aux, old, call>>

\* The body of the caller's loop: fmt.Printf("%s\n", sc.Value()).
ScanValue ==
    /\ pc = "value"
    /\ dst' = [v |-> sc.v,
               out |-> valueMarshalTo(dst.out,
                                      Slice(b, sc.base, Len(input)), c, sc.v)
                       \o <<Ch.lf>>]
    /\ pc' = "scan"
    /\ UNCHANGED <<input, fed, toks, b, c, ret, aux, old, call, sc>>

NextScan ==
    \/ \E tok \in ScanTokens : Feed(tok)
    \/ ScanInit
    \/ ScanNext
    \/ ScanValue

SpecScan == InitScan /\ [][NextScan]_vars

------------------------------------------------------------------------------
(* Specification SpecValidate: the caller composes a document and hands it *)
(* either to Validate or to ValidateParser.Parse.                          *)

\*   "  0x01  0x1f  a  {"  ":1}  [  ]
ControlTokens ==
    { <<34>>, <<1>>, <<31>>, <<97>>, <<123, 34>>, <<34, 58, 49, 125>>,
      <<91>>, <<93>> }
\*   0  1  -  .  e+6  [  ]  ,  space
ZeroTokens ==
    { <<48>>, <<49>>, <<45>>, <<46>>, <<101, 43, 54>>, <<91>>, <<93>>,
      <<44>>, <<32>> }
\*   nan  nAN  NaN  inf  Inf  -  +  [  ]
NanTokens ==
    { <<110, 97, 110>>, <<110, 65, 78>>, <<78, 97, 78>>, <<105, 110, 102>>,
      <<73, 110, 102>>, <<45>>, <<43>>, <<91>>, <<93>> }
ValidateTokenSets == <<ControlTokens, ZeroTokens, NanTokens>>

InitValidate ==
    /\ input = <<>>
    /\ fed = 0
    /\ toks \in 1 .. Len(ValidateTokenSets)
    /\ pc = "new"
    /\ b = <<>>
    /\ c = ZeroCache
    /\ ret = NoRet
    /\ dst = NoDst
    /\ aux = NoRead
    /\ old = NoOld
    /\ call = NoCall
    /\ sc = NoScanner

\* err := Validate(input)
RunValidate ==
    /\ pc = "new"
    /\ ret' = [op |-> "Validate", ok |-> Validate(input)]
    /\ pc' = "validated"
    /\ UNCHANGED <<input, fed, toks, b, c, dst, aux, old, call, sc>>

\* _, err := vp.Parse(input) on a ValidateParser vp
RunValidateParser ==
    /\ pc = "new"
    /\ ret' = [op |-> "ValidateParser", ok |-> ValidateParserParse(input)]
    /\ pc' = "validated"
    /\ UNCHANGED <<input, fed, toks, b, c, dst, aux, old, call, sc>>

NextValidate ==
    \/ \E tok \in ValidateTokenSets[toks] : Feed(tok)
    \/ RunValidate
    \/ RunValidateParser

SpecValidate == InitValidate /\ [][NextValidate]_vars

------------------------------------------------------------------------------
(* Specification SpecValidateDepth: Validate and ValidateParser.Parse run  *)
(* in steps on the deeply nested documents of SpecDepth.  call.frames      *)
(* holds the kind of every loop that is running, call.offset the index at  *)
(* which the next validateValue or parseValidateValue starts, call.res     *)
(* what the last one returned.                                             *)

NoEnter == [call |-> FALSE, offset |-> 0, t |-> TypeNull]

\* The head of the loop of validateArray (t = TypeArray) or validateObject
\* up to its call of validateValue: the index at which the value starts, or
\* call = FALSE when the loop returns with an error before the call.
validateLoopHead(s, t, from, k) ==
    IF t = TypeArray
    THEN [call |-> TRUE, offset |-> validate_skipWS(s, from), t |-> t]
    ELSE IF Len(s) - validate_skipWS(s, from) = 0
            \/ At(s, validate_skipWS(s, from)) # Ch.quote
    THEN NoEnter
    ELSE IF k.err THEN NoEnter
    ELSE IF Len(s) - validate_skipWS(s, k.tail) = 0
            \/ At(s, validate_skipWS(s, k.tail)) # Ch.colon
    THEN NoEnter
    ELSE [call |-> TRUE, t |-> t,
          offset |-> validate_skipWS(s, validate_skipWS(s, k.tail) + 1)]

\* The key that the loop of validateObject reads at its head.
validateLoopKey(s, from) == validateString(s, validate_skipWS(s, from) + 1)

\* validateValue(s[from:]) up to the first call of validateValue in the loop
\* of validateArray or validateObject, if it gets there.
validateEnter(s, from) ==
    IF Len(s) - from = 0 THEN NoEnter
    ELSE IF Len(s) - validate_skipWS(s, from + 1) = 0 THEN NoEnter
    ELSE IF At(s, from) = Ch.lbrack
            /\ At(s, validate_skipWS(s, from + 1)) # Ch.rbrack
    THEN validateLoopHead(s, TypeArray, validate_skipWS(s, from + 1),
                          [tail |-> 0, err |-> FALSE])
    ELSE IF At(s, from) = Ch.lbrace
            /\ At(s, validate_skipWS(s, from + 1)) # Ch.rbrace
    THEN validateLoopHead(s, TypeObject, validate_skipWS(s, from + 1),
             validateLoopKey(s, validate_skipWS(s, from + 1)))
    ELSE NoEnter

\* The loop of kind t after validateValue returned r: on ',' it goes to its
\* head again.
validateLoopNext(s, t, r) ==
    IF r.err THEN NoEnter
    ELSE IF Len(s) - validate_skipWS(s, r.tail) = 0 THEN NoEnter
    ELSE IF At(s, validate_skipWS(s, r.tail)) # Ch.comma THEN NoEnter
    ELSE validateLoopHead(s, t, validate_skipWS(s, r.tail) + 1,
             IF t = TypeArray THEN r
             ELSE validateLoopKey(s, validate_skipWS(s, r.tail) + 1))

\* What the validateValue that runs the loop of kind t returns when the loop
\* ends after validateValue returned r.
validateLoopReturn(s, t, r) ==
    IF t = TypeArray THEN validateArrayNext(s, r)
    ELSE validateObjectNext(s, r)

\* The same four for parseValidateValue, which checks the depth first and
\* reads the keys with parseValidateRawKey.
parseValidateLoopHead(s, t, from, k) ==
    IF t = TypeArray
    THEN [call |-> TRUE, offset |-> validate_skipWS(s, from), t |-> t]
    ELSE IF Len(s) - validate_skipWS(s, from) = 0
            \/ At(s, validate_skipWS(s, from)) # Ch.quote
    THEN NoEnter
    ELSE IF k.err THEN NoEnter
    ELSE IF Len(s) - validate_skipWS(s, k.tail) = 0
            \/ At(s, validate_skipWS(s, k.tail)) # Ch.colon
    THEN NoEnter
    ELSE [call |-> TRUE, t |-> t,
          offset |-> validate_skipWS(s, validate_skipWS(s, k.tail) + 1)]

parseValidateLoopKey(s, from) ==
    parseValidateRawKey(s, validate_skipWS(s, from) + 1)

parseValidateEnter(s, from, depth) ==
    IF Len(s) - from = 0 THEN NoEnter
    ELSE IF parseValidateDepthExceeded(depth) THEN NoEnter
    ELSE IF Len(s) - validate_skipWS(s, from + 1) = 0 THEN NoEnter
    ELSE IF At(s, from) = Ch.lbrack
            /\ At(s, validate_skipWS(s, from + 1)) # Ch.rbrack
    THEN parseValidateLoopHead(s, TypeArray, validate_skipWS(s, from + 1),
                               [tail |-> 0, err |-> FALSE])
    ELSE IF At(s, from) = Ch.lbrace
            /\ At(s, validate_skipWS(s, from + 1)) # Ch.rbrace
    THEN parseValidateLoopHead(s, TypeObject, validate_skipWS(s, from + 1),
             parseValidateLoopKey(s, validate_skipWS(s, from + 1)))
    ELSE NoEnter

parseValidateLoopNext(s, t, r) ==
    IF r.err THEN NoEnter
    ELSE IF Len(s) - validate_skipWS(s, r.tail) = 0 THEN NoEnter
    ELSE IF At(s, validate_skipWS(s, r.tail)) # Ch.comma THEN NoEnter
    ELSE parseValidateLoopHead(s, t, validate_skipWS(s, r.tail) + 1,
             IF t = TypeArray THEN r
             ELSE parseValidateLoopKey(s, validate_skipWS(s, r.tail) + 1))

parseValidateLoopReturn(s, t, r, depth) ==
    IF t = TypeArray THEN parseValidateArrayNext(s, r, depth)
    ELSE parseValidateObjectNext(s, r, depth)

\* Validate, or ValidateParser.Parse, up to its call of validateValue, or
\* parseValidateValue.
ValidateBegin(op) ==
    /\ pc = "new"
    /\ aux' = [op |-> op]
    /\ call' = [NoCall EXCEPT !.offset = validate_skipWS(input, 0)]
    /\ pc' = "vcall"
    /\ UNCHANGED <<input, fed, toks, b, c, ret, dst, old, sc>>

\* validateValue, or parseValidateValue, is entered at call.offset, the
\* depth being the number of loops that are running.  It gets to the call in
\* the loop of an array or an object, or it returns.
ValidateCall ==
    /\ pc = "vcall"
    /\ \E h \in {IF aux.op = "Validate"
                 THEN validateEnter(input, call.offset)
                 ELSE parseValidateEnter(input, call.offset,
                                         Len(call.frames))} :
          IF h.call
          THEN /\ call' = [call EXCEPT !.frames = Append(@, h.t),
                                       !.offset = h.offset]
               /\ pc' = "vcall"
          ELSE /\ \E r \in {IF aux.op = "Validate"
                            THEN validateValue(input, call.offset)
                            ELSE parseValidateValue(input, call.offset,
                                                    Len(call.frames))} :
                      call' = [call EXCEPT !.res = r]
               /\ pc' = "vret"
    /\ UNCHANGED <<input, fed, toks, b, c, ret, dst, aux, old, sc>>

\* The call has returned call.res: to Validate or Parse, which returns, or
\* to the innermost loop, which goes on to its next call or returns.
ValidateReturn ==
    /\ pc = "vret"
    /\ IF call.frames = <<>>
       THEN /\ ret' = [op |-> aux.op, ok |-> validateTail(input, call.res)]
            /\ pc' = "validated"
            /\ UNCHANGED call
       ELSE \E t \in {call.frames[Len(call.frames)]} :
            \E h \in {IF aux.op = "Validate"
                      THEN validateLoopNext(input, t, call.res)
                      ELSE parseValidateLoopNext(input, t, call.res)} :
               IF h.call
               THEN /\ call' = [call EXCEPT !.offset = h.offset]
                    /\ pc' = "vcall"
                    /\ UNCHANGED ret
               ELSE /\ \E q \in {IF aux.op = "Validate"
                                 THEN validateLoopReturn(input, t, call.res)
                                 ELSE parseValidateLoopReturn(input, t,
                                          call.res, Len(call.frames))} :
                           call' = [call EXCEPT
                                      !.frames = SubSeq(@, 1, Len(@) - 1),
                                      !.res = q]
                    /\ pc' = "vret"
                    /\ UNCHANGED ret
    /\ UNCHANGED <<input, fed, toks, b, c, dst, aux, old, sc>>

NextValidateDepth ==
    \/ \E op \in {"Validate", "ValidateParser"} : ValidateBegin(op)
    \/ ValidateCall
    \/ ValidateReturn

SpecValidateDepth == InitDepth /\ [][NextValidateDepth]_vars

\* The same steps on the documents of SpecValidate: they end with the result
\* that Validate and ValidateParser.Parse give in one go.
NextValidateSteps ==
    \/ \E tok \in ValidateTokenSets[toks] : Feed(tok)
    \/ \E op \in {"Validate", "ValidateParser"} : ValidateBegin(op)
    \/ ValidateCall
    \/ ValidateReturn

SpecValidateSteps == InitValidate /\ [][NextValidateSteps]_vars

ValidateStepsAgree ==
    pc = "validated" =>
        ret.ok = IF ret.op = "Validate" THEN Validate(input)
                 ELSE ValidateParserParse(input)

------------------------------------------------------------------------------
(* Specification SpecUpdate: the caller parses a document and then updates *)
(* the tree with Set, Del and SetP, and marshals it.                       *)

\*   {"a":1,"b":2}  {"\u0061":1,"a":2}  {"a":1,"a":[2],"c":3}  {}  {"\u0001":{"b":1}}
ObjectDocs ==
    { <<123, 34, 97, 34, 58, 49, 44, 34, 98, 34, 58, 50, 125>>,
      <<123, 34, 92, 117, 48, 48, 54, 49, 34, 58, 49, 44, 34, 97, 34, 58, 50, 125>>,
      <<123, 34, 97, 34, 58, 49, 44, 34, 97, 34, 58, 91, 50, 93, 44, 34, 99, 34, 58, 51, 125>>,
      <<123, 125>>,
      <<123, 34, 92, 117, 48, 48, 48, 49, 34, 58, 123, 34, 98, 34, 58, 49, 125, 125>> }
\* The keys the caller sets and deletes:  a  b  \u0061  0x01
ObjectKeys ==
    { <<97>>, <<98>>, <<92, 117, 48, 48, 54, 49>>, <<1>> }
\*   [1,2,3]  []  [[1],{"a":2}]
ArrayDocs ==
    { <<91, 49, 44, 50, 44, 51, 93>>,
      <<91, 93>>,
      <<91, 91, 49, 93, 44, 123, 34, 97, 34, 58, 50, 125, 93>> }
\*   0  1  3  -1  +1  -0  x  (empty)
ArrayKeys ==
    { <<48>>,
      <<49>>,
      <<51>>,
      <<45, 49>>,
      <<43, 49>>,
      <<45, 48>>,
      <<120>>,
      <<>> }
\*   {}  []  {"a":{"b":1}}  {"a":[1]}  [[1]]  {"\u0061":{},"a":1}
PathDocs ==
    { <<123, 125>>,
      <<91, 93>>,
      <<123, 34, 97, 34, 58, 123, 34, 98, 34, 58, 49, 125, 125>>,
      <<123, 34, 97, 34, 58, 91, 49, 93, 125>>,
      <<91, 91, 49, 93, 93>>,
      <<123, 34, 92, 117, 48, 48, 54, 49, 34, 58, 123, 125, 44, 34, 97, 34, 58, 49, 125>> }
\* The paths the caller sets:  a  a.b  a.0  a.-1  -1  -1.-1  1.a  0.0  a.b.c  2
\*   -2  -2.a  a.-2
Paths ==
    { <<PathKey(<<97>>)>>,
      <<PathKey(<<97>>), PathKey(<<98>>)>>,
      <<PathKey(<<97>>), PathIdx(0)>>,
      <<PathKey(<<97>>), PathIdx(-1)>>,
      <<PathIdx(-1)>>,
      <<PathIdx(-1), PathIdx(-1)>>,
      <<PathIdx(1), PathKey(<<97>>)>>,
      <<PathIdx(0), PathIdx(0)>>,
      <<PathKey(<<97>>), PathKey(<<98>>), PathKey(<<99>>)>>,
      <<PathIdx(2)>>,
      <<PathIdx(-2)>>,
      <<PathIdx(-2), PathKey(<<97>>)>>,
      <<PathKey(<<97>>), PathIdx(-2)>> }
\* The documents of the values the caller puts into the tree:  7  {"n":[8]}
ValueDocs ==
    { <<55>>, <<123, 34, 110, 34, 58, 91, 56, 93, 125>> }
UpdateDocs == <<ObjectDocs, ArrayDocs, PathDocs>>
UpdateKeys == <<ObjectKeys, ArrayKeys, {}>>
UpdatePaths == <<{}, {}, Paths>>

\* How many updates the caller makes.
MaxUpdates == 2

InitUpdate ==
    /\ toks \in 1 .. Len(UpdateDocs)
    /\ input \in UpdateDocs[toks]
    /\ fed = 1
    /\ pc = "new"
    /\ b = <<>>
    /\ c = ZeroCache
    /\ ret = NoRet
    /\ dst = NoDst
    /\ aux = NoRead
    /\ old = NoOld
    /\ call = NoCall
    /\ sc = NoScanner

\* The number of updates made so far.
Updates == IF aux = NoRead THEN 0 ELSE aux.n

Updatable ==
    /\ pc \in {"parsed", "updated"}
    /\ ret.v # Nil
    /\ Updates < MaxUpdates

\* The handles the caller holds: nil, the root and what the root contains.
Handles ==
    IF ret.v = Nil THEN {Nil}
    ELSE {Nil, ret.v}
            \cup {c.vs[ret.v].a[i] : i \in 1 .. Len(c.vs[ret.v].a)}
            \cup {c.vs[ret.v].o.kvs[i].v : i \in 1 .. c.vs[ret.v].o.len}

\* v.Set(key, MustParse(doc))
Set(v, key, doc) ==
    /\ Updatable
    /\ \E m \in {MustParse(b, c, doc)} :
       \E r \in {valueSet(m.b, m.c, v, key, m.v)} :
           /\ b' = r.b
           /\ c' = r.c
           /\ aux' = [op |-> "Set", v |-> v, key |-> key, value |-> m.v,
                      n |-> Updates + 1]
    /\ pc' = "updated"
    /\ UNCHANGED <<input, fed, toks, ret, dst, old, call, sc>>

\* v.Del(key)
Del(v, key) ==
    /\ Updatable
    /\ \E r \in {valueDel(b, c, v, key)} :
           /\ b' = r.b
           /\ c' = r.c
    /\ aux' = [op |-> "Del", v |-> v, key |-> key, n |-> Updates + 1]
    /\ pc' = "updated"
    /\ UNCHANGED <<input, fed, toks, ret, dst, old, call, sc>>

\* root.SetP(path, MustParse(doc)) on the root of the tree
SetP(path, doc) ==
    /\ Updatable
    /\ \E m \in {MustParse(b, c, doc)} :
       \E r \in {valueSetP(m.b, m.c, ret.v, path, m.v)} :
           /\ b' = r.b
           /\ c' = r.c
           /\ aux' = [op |-> "SetP", v |-> ret.v, path |-> path,
                      value |-> m.v, n |-> Updates + 1]
           /\ pc' = IF HasPanicked(r) THEN "panicked" ELSE "updated"
    /\ UNCHANGED <<input, fed, toks, ret, dst, old, call, sc>>

\* root.MarshalTo(nil) on the updated tree
MarshalUpdated ==
    /\ pc = "updated"
    /\ dst' = [v |-> ret.v, out |-> valueMarshalTo(<<>>, b, c, ret.v)]
    /\ pc' = "marshaled"
    /\ UNCHANGED <<input, fed, toks, b, c, ret, aux, old, call, sc>>

NextUpdate ==
    \/ Parse
    \/ \E v \in Handles, key \in UpdateKeys[toks], doc \in ValueDocs :
          Set(v, key, doc)
    \/ \E v \in Handles, key \in UpdateKeys[toks] : Del(v, key)
    \/ \E path \in UpdatePaths[toks], doc \in ValueDocs : SetP(path, doc)
    \/ MarshalUpdated

SpecUpdate == InitUpdate /\ [][NextUpdate]_vars

------------------------------------------------------------------------------
(* Specification SpecShared: two goroutines, each with a parser of its own *)
(* of the variant in part_003, parse a document and read and update the    *)
(* tree they got.  input, ret and pc hold one element for each goroutine.  *)

Goroutines == {1, 2}

\*   {"e":{}}  [true,[]]  {}  {"a":[null]}
SharedDocs ==
    { <<123, 34, 101, 34, 58, 123, 125, 125>>,
      <<91, 116, 114, 117, 101, 44, 91, 93, 93>>,
      <<123, 125>>,
      <<123, 34, 97, 34, 58, 91, 110, 117, 108, 108, 93, 125>> }
\* The keys paths of the goroutines:  e  e.x  x  0  1  a.0  x.y
SharedKeys ==
    { <<(<<101>>)>>,
      <<(<<101>>), (<<120>>)>>,
      <<(<<120>>)>>,
      <<(<<48>>)>>,
      <<(<<49>>)>>,
      <<(<<97>>), (<<48>>)>>,
      <<(<<120>>), (<<121>>)>> }

\* How many calls the goroutines make on their trees, in all.
MaxSharedOps == 2

InitShared ==
    /\ input \in [Goroutines -> SharedDocs]
    /\ fed = 0
    /\ toks = 0
    /\ pc = [g \in Goroutines |-> "new"]
    /\ b = <<>>
    /\ c = SharedMemory
    /\ ret = [g \in Goroutines |-> NoRet]
    /\ dst = NoDst
    /\ aux = NoRead
    /\ old = NoOld
    /\ call = NoCall
    /\ sc = NoScanner

\* v, err := p.Parse(input) in the goroutine g, on its own parser.
GoParse(g) ==
    /\ pc[g] = "new"
    /\ \E m \in {sharedParse(b, c, ParserParse(input[g], <<>>, ZeroCache))} :
           /\ b' = m.b
           /\ c' = m.c
           /\ ret' = [ret EXCEPT ![g] = [NoRet EXCEPT !.v = m.v]]
    /\ pc' = [pc EXCEPT ![g] = "parsed"]
    /\ UNCHANGED <<input, fed, toks, dst, aux, old, call, sc>>

GoReady(g) == pc[g] = "parsed" /\ fed < MaxSharedOps

\* v.Get(keys...) in the goroutine g.
GoGet(g, keys) ==
    /\ GoReady(g)
    /\ \E r \in {valueGet(b, c, ret[g].v, keys)} :
           /\ b' = r.b
           /\ c' = r.c
           /\ aux' = [op |-> "Get", g |-> g, keys |-> keys, v |-> r.v]
    /\ fed' = fed + 1
    /\ UNCHANGED <<input, toks, ret, dst, old, call, sc, pc>>

\* v.GetObject(keys...).Visit(f) in the goroutine g: Visit returns at once
\* on the nil that GetObject returns for what is not an object.
GoVisit(g, keys) ==
    /\ GoReady(g)
    /\ \E r \in {valueGet(b, c, ret[g].v, keys)} :
       \E w \in {IF r.v # Nil /\ r.c.vs[r.v].t = TypeObject
                  THEN objectVisit(r.b, r.c, r.v)
                  ELSE [b |-> r.b, c |-> r.c, trace |-> <<>>]} :
           /\ b' = w.b
           /\ c' = w.c
           /\ aux' = [op |-> "Visit", g |-> g, keys |-> keys,
                      trace |-> w.trace]
    /\ fed' = fed + 1
    /\ UNCHANGED <<input, toks, ret, dst, old, call, sc, pc>>

\* if vv := v.Get(keys...); vv != nil { vv.Type() } in the goroutine g.
GoType(g, keys) ==
    /\ GoReady(g)
    /\ \E r \in {valueGet(b, c, ret[g].v, keys)} :
       \E w \in {IF r.v # Nil THEN valueType(r.b, r.c, r.v)
                  ELSE [b |-> r.b, c |-> r.c, t |-> -1]} :
           /\ b' = w.b
           /\ c' = w.c
           /\ aux' = [op |-> "Type", g |-> g, keys |-> keys, t |-> w.t]
    /\ fed' = fed + 1
    /\ UNCHANGED <<input, toks, ret, dst, old, call, sc, pc>>

\* v.Set(keys, NewTrueValue()) in the goroutine g.
GoSet(g, keys) ==
    /\ GoReady(g)
    /\ \E r \in {sharedSet(b, c, ret[g].v, keys, sharedTrue)} :
           /\ b' = r.b
           /\ c' = r.c
           /\ aux' = [op |-> "Set", g |-> g, keys |-> keys, v |-> r.v]
    /\ fed' = fed + 1
    /\ UNCHANGED <<input, toks, ret, dst, old, call, sc, pc>>

NextShared ==
    \/ \E g \in Goroutines : GoParse(g)
    \/ \E g \in Goroutines, keys \in SharedKeys : GoGet(g, keys)
    \/ \E g \in Goroutines, keys \in SharedKeys : GoVisit(g, keys)
    \/ \E g \in Goroutines, keys \in SharedKeys : GoType(g, keys)
    \/ \E g \in Goroutines, keys \in SharedKeys : GoSet(g, keys)

SpecShared == InitShared /\ [][NextShared]_vars

------------------------------------------------------------------------------
(* Specification SpecArena: the caller parses documents, resets the parser *)
(* and builds values with it, in any order.                                *)

\*   {"a":1}  [{"a":1,"b":2}]  1
ArenaDocs ==
    { <<123, 34, 97, 34, 58, 49, 125>>,
      <<91, 123, 34, 97, 34, 58, 49, 44, 34, 98, 34, 58, 50, 125, 93>>,
      <<49>> }

\* The maps the caller passes to NewObject, as the pairs in the order in
\* which range yields them, last being the value that the parser returned
\* last:  {}  {a: last}  {a: last, b: nil}, in both orders
ArenaMaps(last) ==
    { <<>>,
      <<[k |-> <<97>>, v |-> last]>>,
      <<[k |-> <<97>>, v |-> last], [k |-> <<98>>, v |-> Nil]>>,
      <<[k |-> <<98>>, v |-> Nil], [k |-> <<97>>, v |-> last]>> }

\* How many calls the caller makes on the parser.
MaxArenaOps == 3

InitArena ==
    /\ input = <<>>
    /\ fed = 0
    /\ toks = 0
    /\ pc = "new"
    /\ b = <<>>
    /\ c = ZeroCache
    /\ ret = NoRet
    /\ dst = NoDst
    /\ aux = NoRead
    /\ old = NoOld
    /\ call = NoCall
    /\ sc = NoScanner

\* v, err := p.Parse(d)
ArenaParse(d) ==
    /\ fed < MaxArenaOps
    /\ input' = d
    /\ \E r \in {ParserParse(d, b, c)} :
           /\ b' = r.b
           /\ c' = r.c
           /\ ret' = [v |-> r.v, err |-> r.err, panic |-> r.panic]
    /\ aux' = [op |-> "Parse"]
    /\ pc' = "parsed"
    /\ fed' = fed + 1
    /\ UNCHANGED <<toks, dst, old, call, sc>>

\* p.Reset()
ArenaReset ==
    /\ fed < MaxArenaOps
    /\ c' = cacheReset(c)
    /\ ret' = NoRet
    /\ aux' = [op |-> "Reset"]
    /\ pc' = "reset"
    /\ fed' = fed + 1
    /\ UNCHANGED <<input, toks, b, dst, old, call, sc>>

\* v := p.NewNull()
ArenaNewNull ==
    /\ fed < MaxArenaOps
    /\ \E r \in {parserNewNull(b, c)} :
           /\ b' = r.b
           /\ c' = r.c
           /\ ret' = [NoRet EXCEPT !.v = r.v]
    /\ aux' = [op |-> "NewNull"]
    /\ pc' = "built"
    /\ fed' = fed + 1
    /\ UNCHANGED <<input, toks, dst, old, call, sc>>

\* v := p.NewObject(m)
ArenaNewObject(m) ==
    /\ fed < MaxArenaOps
    /\ \E r \in {parserNewObject(b, c, m)} :
           /\ b' = r.b
           /\ c' = r.c
           /\ ret' = [NoRet EXCEPT !.v = r.v]
    /\ aux' = [op |-> "NewObject", m |-> m]
    /\ pc' = "built"
    /\ fed' = fed + 1
    /\ UNCHANGED <<input, toks, dst, old, call, sc>>

NextArena ==
    \/ \E d \in ArenaDocs : ArenaParse(d)
    \/ ArenaReset
    \/ ArenaNewNull
    \/ \E m \in ArenaMaps(ret.v) : ArenaNewObject(m)

SpecArena == InitArena /\ [][NextArena]_vars

------------------------------------------------------------------------------
(* Specification SpecRecycle: a caller takes parsers from a                *)
(* ParserPoolRecycled, or scanners from a ScannerPoolRecycled, uses them   *)
(* and puts them back.  toks tells which of the two pools it is, old is    *)
(* the pool, that is the instances that were put back, and b, c, sc and    *)
(* fed are the instance that the caller holds, fed being its counter n.    *)

ParserPoolKind == 1
ScannerPoolKind == 2

\* The maxReuse of the pool.
MaxReuse == 2

\* How many instances the pool keeps at most.
MaxPooled == 2

\*   1  [2]
RecycleDocs == { <<49>>, <<91, 50, 93>> }

InitRecycle ==
    /\ toks \in {ParserPoolKind, ScannerPoolKind}
    /\ input = <<>>
    /\ fed = 0
    /\ pc = "idle"
    /\ b = <<>>
    /\ c = ZeroCache
    /\ ret = NoRet
    /\ dst = NoDst
    /\ aux = NoRead
    /\ old = <<>>
    /\ call = NoCall
    /\ sc = NoScanner

\* ppr.Put(pr) and spr.Put(sr): the instance is dropped when its counter is
\* above maxReuse, otherwise it goes into the pool.
poolPut(pool, inst) ==
    IF inst.n > MaxReuse THEN pool ELSE Append(pool, inst)

\* Get of the pool when sync.Pool returns the i-th instance that was put
\* back.
PoolGet(i) ==
    /\ pc = "idle"
    /\ i \in 1 .. Len(old)
    /\ fed' = old[i].n
    /\ b' = old[i].b
    /\ c' = old[i].c
    /\ sc' = old[i].sc
    /\ old' = RemoveAt(old, i)
    /\ aux' = [op |-> "Get", n |-> old[i].n]
    /\ pc' = "held"
    /\ UNCHANGED <<input, toks, ret, dst, call>>

\* Get of the pool when sync.Pool has nothing to return and calls New.
PoolNew ==
    /\ pc = "idle"
    /\ Len(old) < MaxPooled
    /\ fed' = 0
    /\ b' = <<>>
    /\ c' = ZeroCache
    /\ sc' = NoScanner
    /\ aux' = [op |-> "Get", n |-> 0]
    /\ pc' = "held"
    /\ UNCHANGED <<input, toks, ret, dst, old, call>>

\* pr.Parse(d): pr.n++; return pr.Parser.Parse(d)
RecyclableParse(d) ==
    /\ pc = "held"
    /\ toks = ParserPoolKind
    /\ fed <= MaxReuse
    /\ fed' = fed + 1
    /\ input' = d
    /\ \E r \in {ParserParse(d, b, c)} :
           /\ b' = r.b
           /\ c' = r.c
           /\ ret' = [v |-> r.v, err |-> r.err, panic |-> r.panic]
    /\ aux' = [op |-> "Parse", n |-> fed + 1]
    /\ UNCHANGED <<toks, dst, old, call, sc, pc>>

\* sr.Init(d): sr.n++; sr.Scanner.Init(d)
RecyclableInit(d) ==
    /\ pc = "held"
    /\ toks = ScannerPoolKind
    /\ fed <= MaxReuse
    /\ fed' = fed + 1
    /\ input' = d
    /\ b' = appendTo(b, d)
    /\ sc' = NoScanner
    /\ aux' = [op |-> "Init", n |-> fed + 1]
    /\ UNCHANGED <<toks, c, ret, dst, old, call, pc>>

\* ppr.Put(pr), spr.Put(sr)
PoolPut ==
    /\ pc = "held"
    /\ old' = poolPut(old, [n |-> fed, b |-> b, c |-> c, sc |-> sc])
    /\ aux' = [op |-> "Put", n |-> fed]
    /\ pc' = "idle"
    /\ UNCHANGED <<input, fed, toks, b, c, ret, dst, call, sc>>

NextRecycle ==
    \/ \E i \in 1 .. MaxPooled : PoolGet(i)
    \/ PoolNew
    \/ \E d \in RecycleDocs : RecyclableParse(d)
    \/ \E d \in RecycleDocs : RecyclableInit(d)
    \/ PoolPut

SpecRecycle == InitRecycle /\ [][NextRecycle]_vars

------------------------------------------------------------------------------
(* Specification SpecGetters: the caller parses a document and calls the   *)
(* typed getters on the root, and on nil, with keys paths.                 *)

\*   {"foo":123,"bar":"433","baz":true,"obj":{},"arr":[1,"x"]}
\*   {"\u0061":"x","a":5}    [-3,{"k":null},false]    "s\n"
GetterDocs ==
    { <<123, 34, 102, 111, 111, 34, 58, 49, 50, 51, 44,
        34, 98, 97, 114, 34, 58, 34, 52, 51, 51, 34, 44,
        34, 98, 97, 122, 34, 58, 116, 114, 117, 101, 44,
        34, 111, 98, 106, 34, 58, 123, 125, 44,
        34, 97, 114, 114, 34, 58, 91, 49, 44, 34, 120, 34, 93, 125>>,
      <<123, 34, 92, 117, 48, 48, 54, 49, 34, 58, 34, 120, 34, 44,
        34, 97, 34, 58, 53, 125>>,
      <<91, 45, 51, 44, 123, 34, 107, 34, 58, 110, 117, 108, 108, 125, 44,
        102, 97, 108, 115, 101, 93>>,
      <<34, 115, 92, 110, 34>> }

\* The keys paths:  (none)  foo  bar  baz  obj  arr  arr.0  arr.1  arr.5
\*   foo.bar  zz  a  0  1  1.k  2  -1  obj.x
GetterKeys ==
    { <<>>,
      <<(<<102, 111, 111>>)>>,
      <<(<<98, 97, 114>>)>>,
      <<(<<98, 97, 122>>)>>,
      <<(<<111, 98, 106>>)>>,
      <<(<<97, 114, 114>>)>>,
      <<(<<97, 114, 114>>), (<<48>>)>>,
      <<(<<97, 114, 114>>), (<<49>>)>>,
      <<(<<97, 114, 114>>), (<<53>>)>>,
      <<(<<102, 111, 111>>), (<<98, 97, 114>>)>>,
      <<(<<122, 122>>)>>,
      <<(<<97>>)>>,
      <<(<<48>>)>>,
      <<(<<49>>)>>,
      <<(<<49>>), (<<107>>)>>,
      <<(<<50>>)>>,
      <<(<<45, 49>>)>>,
      <<(<<111, 98, 106>>), (<<120>>)>> }

InitGetters ==
    /\ input \in GetterDocs
    /\ fed = 1
    /\ toks = 0
    /\ pc = "new"
    /\ b = <<>>
    /\ c = ZeroCache
    /\ ret = NoRet
    /\ dst = NoDst
    /\ aux = NoRead
    /\ old = NoOld
    /\ call = NoCall
    /\ sc = NoScanner

\* v.GetInt(keys...) and the other getters, v being the root or nil.
GetTyped(kind, v, keys) ==
    /\ pc \in {"parsed", "read"}
    /\ \E r \in {valueGetTyped(kind, b, c, v, keys)} :
           /\ b' = r.b
           /\ c' = r.c
           /\ aux' = [op |-> kind, v |-> v, keys |-> keys, val |-> r.val]
    /\ pc' = "read"
    /\ UNCHANGED <<input, fed, toks, ret, dst, old, call, sc>>

NextGetters ==
    \/ Parse
    \/ \E kind \in GetterKinds, v \in {Nil, ret.v}, keys \in GetterKeys :
          GetTyped(kind, v, keys)

SpecGetters == InitGetters /\ [][NextGetters]_vars

------------------------------------------------------------------------------
(* Specification SpecUnescape: unescapeStringBestEffort, one step of its   *)
(* loop at a time, on a string that lies between two other parts of the    *)
(* buffer.  b is the buffer, old.b the buffer before the call, input the   *)
(* text of the string, and aux holds the position in the loop: the string  *)
(* is b[aux.off : aux.end], the slice b ends at aux.w and s starts at      *)
(* aux.r.                                                                  *)

\*   \u  \  00e9  d83d  de00  n  a
EscapeTokens ==
    { <<92, 117>>, <<92>>, <<48, 48, 101, 57>>, <<100, 56, 51, 100>>,
      <<100, 101, 48, 48>>, <<110>>, <<97>> }

MaxEscapeTok == 4

\* What precedes the string in the buffer,  ["  and what follows it,
\*  ","z"]
BeforeString == <<91, 34>>
AfterString == <<34, 44, 34, 122, 34, 93>>

\* s ends with a backslash that escapes what follows s.
RECURSIVE EndsEscaped(_)
EndsEscaped(s) ==
    /\ s # <<>>
    /\ s[Len(s)] = Ch.backslash
    /\ ~EndsEscaped(SubSeq(s, 1, Len(s) - 1))

InitUnescape ==
    /\ input = <<>>
    /\ fed = 0
    /\ toks = 0
    /\ pc = "new"
    /\ b = <<>>
    /\ c = ZeroCache
    /\ ret = NoRet
    /\ dst = NoDst
    /\ aux = NoRead
    /\ old = NoOld
    /\ call = NoCall
    /\ sc = NoScanner

\* One more chunk of the text of the string.
FeedEscape(tok) ==
    /\ pc = "new"
    /\ fed < MaxEscapeTok
    /\ input' = input \o tok
    /\ fed' = fed + 1
    /\ UNCHANGED <<toks, pc, b, c, ret, dst, aux, old, call, sc>>

\* The position after n := strings.IndexByte(s, '\\') found a backslash at
\* bs: b = b[:n], s = s[n+1:].
unescapeStart(off, end, bs) ==
    [op |-> "unescape", off |-> off, end |-> end, w |-> bs, r |-> bs + 1]

\* for len(s) > 0, s being b[r:end]: the loop goes on, or the function
\* returns b2s(b).
loopOrDone(r, end) == IF r < end THEN "escape" ELSE "done"

\* The call of unescapeStringBestEffort(s) up to the loop.  The text is one
\* that the parser cuts at the closing quote.
UnescapeBegin ==
    /\ pc = "new"
    /\ ~EndsEscaped(input)
    /\ b' = BeforeString \o input \o AfterString
    /\ old' = [old EXCEPT !.b = b']
    /\ \E off \in {Len(BeforeString)}, end \in {Len(BeforeString) + Len(input)} :
         \E idx \in {{i \in off .. end - 1 : At(b', i) = Ch.backslash}} :
           IF idx = {}
           THEN /\ aux' = [op |-> "unescape", off |-> off, end |-> end,
                           w |-> end, r |-> end]
                /\ pc' = "done"
           ELSE /\ aux' = unescapeStart(off, end, Min(idx))
                /\ pc' = loopOrDone(Min(idx) + 1, end)
    /\ UNCHANGED <<input, fed, toks, c, ret, dst, call, sc>>

\* The switch of the loop body: one escape sequence is decoded and appended
\* to b.
UnescapeEscape ==
    /\ pc = "escape"
    /\ aux.r < aux.end
    /\ \E e \in {unescapeOne(b, At(b, aux.r), aux.r + 1, aux.end)} :
           /\ b' = WriteAt(b, aux.w, e.out)
           /\ aux' = [aux EXCEPT !.w = aux.w + Len(e.out),
                                 !.r = aux.r + 1 + e.used]
    /\ pc' = "copy"
    /\ UNCHANGED <<input, fed, toks, c, ret, dst, old, call, sc>>

\* The end of the loop body: the bytes up to the next backslash are
\* appended to b.
UnescapeCopy ==
    /\ pc = "copy"
    /\ \E idx \in {{i \in aux.r .. aux.end - 1 : At(b, i) = Ch.backslash}} :
           IF idx = {}
           THEN /\ b' = WriteAt(b, aux.w, Slice(b, aux.r, aux.end))
                /\ aux' = [aux EXCEPT !.w = aux.w + (aux.end - aux.r),
                                      !.r = aux.end]
                /\ pc' = "done"
           ELSE /\ b' = WriteAt(b, aux.w, Slice(b, aux.r, Min(idx)))
                /\ aux' = [aux EXCEPT !.w = aux.w + (Min(idx) - aux.r),
                                      !.r = Min(idx) + 1]
                /\ pc' = loopOrDone(Min(idx) + 1, aux.end)
    /\ UNCHANGED <<input, fed, toks, c, ret, dst, old, call, sc>>

NextUnescape ==
    \/ \E tok \in EscapeTokens : FeedEscape(tok)
    \/ UnescapeBegin
    \/ UnescapeEscape
    \/ UnescapeCopy

SpecUnescape == InitUnescape /\ [][NextUnescape]_vars

------------------------------------------------------------------------------
(* Specification SpecHandy: goroutines call the handy functions GetString  *)
(* and GetBytes, which share the parsers of handyPool.  b[p] and c[p] are  *)
(* the buffer and the cache of parser p, toks the number of parsers made,  *)
(* old the set of parsers in the pool, fed the number of calls made, and   *)
(* pc[g], ret[g] and aux[g] the position, the parsed value and the locals  *)
(* of goroutine g.  dst holds every result returned, with the bytes it had *)
(* when it was returned.                                                   *)

MaxParsers == 2
MaxHandyCalls == 2

\*   {"a":"xy"}    {"a":"z\n"}    ["q"]    {
HandyDocs ==
    { <<123, 34, 97, 34, 58, 34, 120, 121, 34, 125>>,
      <<123, 34, 97, 34, 58, 34, 122, 92, 110, 34, 125>>,
      <<91, 34, 113, 34, 93>>,
      <<123>> }

\* The keys paths:  a    0
HandyKeys == { <<(<<97>>)>>, <<(<<48>>)>> }

NoView == View(0, 0)

\* A byte slice or string in memory of its own that holds the bytes data.
OwnBytes(data) == [p |-> 0, vw |-> NoView, data |-> data]

\* The result that points into the buffer of the parser.
copyBytes_Alias(p, buf, vw) == [p |-> p, vw |-> vw, data |-> <<>>]

\* string(sb) and append(b, sb...) for the slice sb == buf[vw] of parser p:
\* new memory that holds a copy of the bytes.
copyBytes(p, buf, vw) == OwnBytes(Bytes(buf, vw))

\* The bytes that a result holds now.
ResultBytes(res) ==
    IF res.p = 0 THEN res.data ELSE Bytes(b[res.p], res.vw)

NoLocals == [fn |-> "none", data |-> <<>>, keys |-> <<>>, p |-> 0,
             res |-> OwnBytes(<<>>)]

InitHandy ==
    /\ input = <<>>
    /\ fed = 0
    /\ toks = 0
    /\ pc = [g \in Goroutines |-> "idle"]
    /\ b = [p \in 1 .. MaxParsers |-> <<>>]
    /\ c = [p \in 1 .. MaxParsers |-> ZeroCache]
    /\ ret = [g \in Goroutines |-> NoRet]
    /\ dst = {}
    /\ aux = [g \in Goroutines |-> NoLocals]
    /\ old = {}
    /\ call = NoCall
    /\ sc = NoScanner

\* Goroutine g calls GetString or GetBytes: p := handyPool.Get() returns a
\* parser of the pool.
HandyGetPooled(g, fn, data, keys, p) ==
    /\ pc[g] = "idle"
    /\ fed < MaxHandyCalls
    /\ p \in old
    /\ old' = old \ {p}
    /\ fed' = fed + 1
    /\ aux' = [aux EXCEPT ![g] = [fn |-> fn, data |-> data, keys |-> keys,
                                  p |-> p, res |-> OwnBytes(<<>>)]]
    /\ pc' = [pc EXCEPT ![g] = "parse"]
    /\ UNCHANGED <<input, toks, b, c, ret, dst, call, sc>>

\* Goroutine g calls GetString or GetBytes: handyPool.Get() finds nothing
\* and returns &Parser{}.
HandyGetNew(g, fn, data, keys) ==
    /\ pc[g] = "idle"
    /\ fed < MaxHandyCalls
    /\ toks < MaxParsers
    /\ toks' = toks + 1
    /\ fed' = fed + 1
    /\ aux' = [aux EXCEPT ![g] = [fn |-> fn, data |-> data, keys |-> keys,
                                  p |-> toks + 1, res |-> OwnBytes(<<>>)]]
    /\ pc' = [pc EXCEPT ![g] = "parse"]
    /\ UNCHANGED <<input, b, c, ret, dst, old, call, sc>>

\* v, err := p.ParseBytes(data)
HandyParse(g) ==
    /\ pc[g] = "parse"
    /\ \E r \in {ParserParse(aux[g].data, b[aux[g].p], c[aux[g].p])} :
           /\ b' = [b EXCEPT ![aux[g].p] = r.b]
           /\ c' = [c EXCEPT ![aux[g].p] = r.c]
           /\ ret' = [ret EXCEPT ![g] = [v |-> r.v, err |-> r.err,
                                         panic |-> r.panic]]
           /\ pc' = [pc EXCEPT ![g] = IF r.err # ErrNone THEN "put"
                                      ELSE "read"]
    /\ UNCHANGED <<input, fed, toks, dst, aux, old, call, sc>>

\* The result made of what v.GetStringBytes(keys...) returned: r is the
\* getter's return, found the value that the keys lead to.
handyResult(p, r, found) ==
    IF r.val.nil THEN OwnBytes(<<>>)
    ELSE copyBytes(p, r.b, r.c.vs[found].s)

\* sb := v.GetStringBytes(keys...) and the copy of sb: str := string(sb)
\* in GetString, b = append(b, sb...) in GetBytes.
HandyRead(g) ==
    /\ pc[g] = "read"
    /\ \E p \in {aux[g].p} :
         \E r \in {valueGetTyped("GetStringBytes", b[p], c[p], ret[g].v,
                                 aux[g].keys)} :
           /\ b' = [b EXCEPT ![p] = r.b]
           /\ c' = [c EXCEPT ![p] = r.c]
           /\ aux' = [aux EXCEPT ![g].res =
                         handyResult(p, r,
                             valueGet(b[p], c[p], ret[g].v, aux[g].keys).v)]
    /\ pc' = [pc EXCEPT ![g] = "put"]
    /\ UNCHANGED <<input, fed, toks, ret, dst, old, call, sc>>

\* handyPool.Put(p)
HandyPut(g) ==
    /\ pc[g] = "put"
    /\ old' = old \cup {aux[g].p}
    /\ pc' = [pc EXCEPT ![g] = "return"]
    /\ UNCHANGED <<input, fed, toks, b, c, ret, dst, aux, call, sc>>

\* return str, return b, return "" and return nil
HandyReturn(g) ==
    /\ pc[g] = "return"
    /\ dst' = dst \cup {[res |-> aux[g].res, was |-> ResultBytes(aux[g].res),
                          fn |-> aux[g].fn, by |-> g]}
    /\ aux' = [aux EXCEPT ![g] = NoLocals]
    /\ ret' = [ret EXCEPT ![g] = NoRet]
    /\ pc' = [pc EXCEPT ![g] = "idle"]
    /\ UNCHANGED <<input, fed, toks, b, c, old, call, sc>>

NextHandy ==
    \/ \E g \in Goroutines, fn \in {"GetString", "GetBytes"},
          data \in HandyDocs, keys \in HandyKeys, p \in 1 .. MaxParsers :
            HandyGetPooled(g, fn, data, keys, p)
    \/ \E g \in Goroutines, fn \in {"GetString", "GetBytes"},
          data \in HandyDocs, keys \in HandyKeys :
            HandyGetNew(g, fn, data, keys)
    \/ \E g \in Goroutines : HandyParse(g)
    \/ \E g \in Goroutines : HandyRead(g)
    \/ \E g \in Goroutines : HandyPut(g)
    \/ \E g \in Goroutines : HandyReturn(g)

SpecHandy == InitHandy /\ [][NextHandy]_vars

------------------------------------------------------------------------------
(* Properties *)

\* C1: for every input string Parse returns a value or an error and never
\* panics on an out-of-range index or slice expression.
C1_ParseNeverPanics == ~ret.panic

\* C2: Parse returns a value only if every byte of the input after the
\* top-level value is whitespace; otherwise it returns an error and no
\* value.  The top-level value starts after the leading whitespace and is
\* Len() bytes long.
C2_WholeInputConsumed ==
    (pc # "new" /\ ~ret.panic) =>
        /\ ret.v = Nil <=> ret.err # ErrNone
        /\ ret.v # Nil =>
               \A i \in skipWS(input) + valueLen(c, ret.v) .. Len(input) - 1 :
                   IsWS(At(input, i))

\* Parse has rejected an input for the bytes that follow its top-level value.
C2_Witness == pc = "parsed" /\ ret.err = ErrTail /\ ret.v = Nil

\* The key of entry i of the object o in its unescaped form, whether or not
\* the object's keys have been unescaped yet.
UnescapedKey(buf, o, i) ==
    IF o.keysUnescaped THEN Bytes(buf, o.kvs[i].k)
    ELSE Bytes(unescapeStringBestEffort(buf, o.kvs[i].k).buf,
               unescapeStringBestEffort(buf, o.kvs[i].k).s)

\* The value of the first entry of o, in insertion order, whose unescaped
\* key equals key; nil when there is none.
FirstMatch(buf, o, key) ==
    IF \E i \in 1 .. o.len : UnescapedKey(buf, o, i) = key
    THEN o.kvs[Min({i \in 1 .. o.len : UnescapedKey(buf, o, i) = key})].v
    ELSE Nil

\* C4: Object.Get(k) returns the value of the first entry, in insertion
\* order, whose key in its unescaped form equals k.
C4_GetReturnsFirstMatch ==
    aux.op = "Get" => aux.v = FirstMatch(b, c.vs[aux.o].o, aux.key)

\* C5: for an object that is not mutated, what Object.Get(k) returns is the
\* same before and after any read-only operation (Type, Get, Visit,
\* MarshalTo), for every object of the tree and every key.
C5_GetIsStable ==
    [][(Readable /\ pc' \in {"read", "marshaled"}) =>
          \A o \in 1 .. c.len : \A key \in LookupKeys :
              c.vs[o].t = TypeObject =>
                  objectGet(b, c, o, key).v = objectGet(b', c', o, key).v]_vars

\* The text s without the whitespace between its tokens: whitespace inside
\* a string literal stays.
RECURSIVE StripFrom(_, _, _, _)
StripFrom(s, i, inString, escaped) ==
    IF i > Len(s) THEN <<>>
    ELSE IF inString
    THEN <<s[i]>> \o StripFrom(s, i + 1,
                               ~(s[i] = Ch.quote /\ ~escaped),
                               s[i] = Ch.backslash /\ ~escaped)
    ELSE IF IsWS(s[i]) THEN StripFrom(s, i + 1, FALSE, FALSE)
    ELSE <<s[i]>> \o StripFrom(s, i + 1, s[i] = Ch.quote, FALSE)

StripWS(s) == StripFrom(s, 1, FALSE, FALSE)

\* C6: after a successful Parse(s), for every value v of the tree,
\* s[v.Offset() : v.Offset() + v.Len()] is v's text: the text MarshalTo
\* writes for v before any typed access, up to whitespace between tokens.
C6_OffsetLenSpanText ==
    (pc = "parsed" /\ ret.v # Nil) =>
        \A v \in 1 .. c.len :
            /\ valueOffset(c, v) + valueLen(c, v) <= Len(input)
            /\ StripWS(Slice(input, valueOffset(c, v),
                             valueOffset(c, v) + valueLen(c, v)))
                  = valueMarshalTo(<<>>, b, c, v)

C9_MarshalIsValidJSON ==
    (pc = "marshaled" /\ Validate(input)) => Validate(dst.out)

\* The tree below the handle v as a caller can observe it: the type, the
\* span, the text of a string or number, the elements, the entries.
RECURSIVE Tree(_, _, _)
Tree(buf, cc, v) ==
    IF v = Nil THEN [t |-> "nil"]
    ELSE [t |-> cc.vs[v].t,
          do |-> cc.vs[v].do,
          dl |-> cc.vs[v].dl,
          s |-> IF cc.vs[v].t \in {TypeString, typeRawString, TypeNumber}
                THEN Bytes(buf, cc.vs[v].s) ELSE <<>>,
          a |-> IF cc.vs[v].t = TypeArray
                THEN [i \in 1 .. Len(cc.vs[v].a) |->
                         Tree(buf, cc, cc.vs[v].a[i])]
                ELSE <<>>,
          o |-> IF cc.vs[v].t = TypeObject
                THEN [i \in 1 .. cc.vs[v].o.len |->
                         [k |-> Bytes(buf, cc.vs[v].o.kvs[i].k),
                          v |-> Tree(buf, cc, cc.vs[v].o.kvs[i].v)]]
                ELSE <<>>,
          keysUnescaped |-> cc.vs[v].t = TypeObject
                               /\ cc.vs[v].o.keysUnescaped]

\* What Parse(s) returns on a parser that has never parsed anything.
Fresh(s) == ParserParse(s, <<>>, ZeroCache)

\* C3 (amended): every Parse, whether it succeeds or fails, starts from zero
\* slots in use and from a buffer that begins with the new trimmed input:
\* the slots in use, the result and the tree it returns are those of a
\* parser that never parsed anything, so no value of the previous document
\* is reachable from the new tree.
C3_ParseStartsAfresh ==
    pc = "reparsed" =>
        /\ c.len = Fresh(input).c.len
        /\ SubSeq(b, 1, Len(input) - skipWS(input))
              = SliceFrom(input, skipWS(input))
        /\ ret.err = Fresh(input).err
        /\ ret.panic = Fresh(input).panic
        /\ Tree(b, c, ret.v) = Tree(Fresh(input).b, Fresh(input).c,
                                    Fresh(input).v)

\* The second Parse has returned a tree on slots that held values of the
\* first document, which had more values.
C3_Witness ==
    /\ pc = "reparsed" /\ old.v # Nil /\ ret.v # Nil
    /\ c.len >= 1 /\ old.c.len > c.len
    /\ c.vs[1] # old.c.vs[1]

\* The strings that the handle h of the previous tree aliases.
HandleViews(h) ==
    IF old.c.vs[h].t \in {TypeString, typeRawString, TypeNumber}
    THEN {old.c.vs[h].s}
    ELSE IF old.c.vs[h].t = TypeObject
    THEN {old.c.vs[h].o.kvs[i].k : i \in 1 .. old.c.vs[h].o.len}
    ELSE {}

\* Parse has written over a byte that the handle h aliases: the new input
\* went to the same array and reaches into one of the handle's strings.
Overwritten(h) ==
    /\ Len(input) - skipWS(input) <= Len(old.b)
    /\ \E vw \in HandleViews(h) :
           vw.len > 0 /\ vw.off < Len(input) - skipWS(input)

\* C3: every Parse resets the arena and replaces the buffer, so that every
\* handle of the previous tree is invalidated -- its slot is reused or its
\* bytes are overwritten -- and no value of the previous document is
\* reachable from the new tree.
C3_OldHandlesInvalidated ==
    /\ C3_ParseStartsAfresh
    /\ (pc = "reparsed" /\ old.v # Nil) =>
           \A h \in 1 .. old.c.len : h <= c.len \/ Overwritten(h)

\* C7: Parse succeeds on a document nested exactly MaxDepth levels deep, and
\* on the less deeply nested ones, and fails with the depth error on a
\* document nested MaxDepth + 1 levels deep or more.
C7_DepthLimit ==
    pc = "parsed" =>
        \A w \in Wrappers, leaf \in Leaves, n \in Nestings :
            input = Nested(w, leaf, n) =>
                IF n + 1 <= MaxDepth
                THEN /\ ~ret.panic /\ ret.err = ErrNone /\ ret.v = 1
                     /\ c.len = n + 1
                     /\ call.why = ErrNone
                ELSE /\ ~ret.panic /\ ret.err = ErrParse /\ ret.v = Nil
                     /\ call.why = ErrDepth

\* Parse has failed with the depth error after it had taken MaxDepth values
\* from the cache, one for each level.
C7_Witness ==
    /\ pc = "parsed" /\ ret.err = ErrParse /\ call.why = ErrDepth
    /\ c.len = MaxDepth
    /\ \E w \in Wrappers, leaf \in Leaves : input = Nested(w, leaf, MaxDepth)

\* The end of the document that starts at offset i of s: it is accepted by
\* Validate and whitespace or the end of s follows it.  -1 if there is none.
DocEnd(s, i) ==
    LET ends == {j \in i + 1 .. Len(s) :
                    /\ ~IsWS(At(s, j - 1))
                    /\ j = Len(s) \/ IsWS(At(s, j))
                    /\ Validate(Slice(s, i, j))}
    IN  IF ends = {} THEN -1 ELSE Min(ends)

\* s[i:] as documents separated by whitespace, if that is what it is.
RECURSIVE DocsFrom(_, _)
DocsFrom(s, i) ==
    LET k    == validate_skipWS(s, i)
        e    == DocEnd(s, k)
        rest == DocsFrom(s, e)
    IN  IF k >= Len(s) THEN [ok |-> TRUE, docs |-> <<>>]
        ELSE IF e < 0 THEN [ok |-> FALSE, docs |-> <<>>]
        ELSE [ok   |-> rest.ok,
              docs |-> IF rest.ok THEN <<Slice(s, k, e)>> \o rest.docs
                       ELSE <<>>]

\* What the caller's loop prints for the documents docs: each without its
\* insignificant whitespace, on a line of its own.
RECURSIVE Lines(_)
Lines(docs) ==
    IF docs = <<>> THEN <<>>
    ELSE StripWS(Head(docs)) \o <<Ch.lf>> \o Lines(Tail(docs))

C11_ErrorIsSticky ==
    /\ [](((pc = "scanned" /\ ~sc.panic /\ sc.s < Len(input))
              => (sc.err # ErrNone /\ sc.v = Nil)))
    /\ [][(sc.err # ErrNone) => (pc' = "scanned" /\ sc' = sc /\ dst' = dst)]_vars

\* Next has failed on the second document, after it had returned the first.
C11_Witness ==
    /\ pc = "scanned" /\ sc.err # ErrNone /\ sc.v = Nil
    /\ sc.s > 0 /\ sc.s < Len(input)
    /\ dst.out # <<>>


\* The number of backslashes that immediately precede s[i].
RECURSIVE BackslashesBefore(_, _)
BackslashesBefore(s, i) ==
    IF i > 0 /\ At(s, i - 1) = Ch.backslash
    THEN 1 + BackslashesBefore(s, i - 1)
    ELSE 0

\* s[i] lies inside a string literal: an odd number of unescaped quotes
\* precedes it.
InsideString(s, i) ==
    Cardinality({j \in 0 .. i - 1 :
                    At(s, j) = Ch.quote /\ BackslashesBefore(s, j) % 2 = 0})
        % 2 = 1

\* A string value or a key of s contains an unescaped byte below 0x20.
ControlCharInString(s) ==
    \E i \in 0 .. Len(s) - 1 :
        /\ At(s, i) < 32
        /\ InsideString(s, i)
        /\ BackslashesBefore(s, i) % 2 = 0

\* C12: whichever of Validate and ValidateParser.Parse is given a document
\* in which a string value or an object key contains an unescaped byte
\* below 0x20, it returns an error.
C12_ControlCharsRejected ==
    (pc = "validated" /\ ControlCharInString(input)) => ~ret.ok


IsDigit(ch) == ch >= Ch.zero /\ ch <= Ch.nine

\* s[i] is where the integer part of a number starts: what precedes it is
\* not part of the same number, except for a minus sign of the number.
StartsIntegerPart(s, i) ==
    \/ i = 0
    \/ /\ ~IsDigit(At(s, i - 1))
       /\ At(s, i - 1) \notin {Ch.dot, Ch.e, Ch.E, Ch.plus}
       /\ At(s, i - 1) = Ch.minus
            => (i = 1 \/ At(s, i - 2) \notin {Ch.e, Ch.E})

\* s holds a number whose integer part has a redundant leading zero.
RedundantLeadingZero(s) ==
    \E i \in 0 .. Len(s) - 2 :
        /\ At(s, i) = Ch.zero
        /\ IsDigit(At(s, i + 1))
        /\ StartsIntegerPart(s, i)
        /\ ~InsideString(s, i)

\* C13: whichever of Validate and ValidateParser.Parse is given a document
\* holding a number whose integer part has a redundant leading zero, be the
\* number followed by more input or the last token, it returns an error.
C13_LeadingZeroRejected ==
    (pc = "validated" /\ RedundantLeadingZero(input)) => ~ret.ok

\* s[i] is a place where a value is expected: the start of the document, or
\* right after the '[' of an array or the ':' of an object entry.
ValueExpected(s, i) ==
    ~InsideString(s, i) /\ (i = 0 \/ At(s, i - 1) \in {Ch.lbrack, Ch.colon})

\* s[i:] starts with lit in some letter case, after an optional sign.
SignedLiteralAt(s, i, lit) ==
    LET q == IF i < Len(s) /\ At(s, i) \in {Ch.plus, Ch.minus}
             THEN i + 1 ELSE i
    IN  q + Len(lit) <= Len(s) /\ EqualFold(Slice(s, q, q + Len(lit)), lit)

\* C14: whichever of Validate and ValidateParser.Parse is given a document
\* that has inf or nan, with or without a sign and in any letter case, where
\* a value is expected, it returns an error.
C14_InfNanRejected ==
    (/\ pc = "validated"
     /\ \E i \in 0 .. Len(input) - 1 :
            /\ ValueExpected(input, i)
            /\ \/ SignedLiteralAt(input, i, StrInf)
               \/ SignedLiteralAt(input, i, StrNan))
        => ~ret.ok


\* C15 as stated: a document nested deeper than MaxDepth is rejected by
\* Validate and by ValidateParser.Parse alike.
C15_DepthLimitInValidators ==
    pc = "validated" =>
        \A w \in Wrappers, leaf \in Leaves, n \in Nestings :
            (input = Nested(w, leaf, n) /\ n + 1 > MaxDepth) => ~ret.ok

\* C15: ValidateParser.Parse accepts a well-formed document nested MaxDepth
\* levels deep or less and rejects one nested MaxDepth + 1 levels deep or
\* more; Validate has no depth limit and accepts them all.
C15_DepthLimitInValidateParser ==
    pc = "validated" =>
        \A w \in Wrappers, leaf \in Leaves, n \in Nestings :
            input = Nested(w, leaf, n) =>
                ret.ok = IF ret.op = "ValidateParser"
                         THEN n + 1 <= MaxDepth
                         ELSE TRUE

\* ValidateParser.Parse has rejected a document nested MaxDepth + 1 levels
\* deep.
C15_Witness ==
    /\ pc = "validated" /\ ret.op = "ValidateParser" /\ ~ret.ok
    /\ call.frames = <<>> /\ call.res.err
    /\ \E w \in Wrappers, leaf \in Leaves : input = Nested(w, leaf, MaxDepth)


\* What a caller observes below the handle v when it visits the tree: the
\* type, the text of a number, the unescaped text of a string, the elements
\* of an array, the entries of an object with their unescaped keys.
RECURSIVE Shape(_, _, _)
Shape(buf, cc, v) ==
    IF v = Nil THEN [t |-> -1, s |-> <<>>, a |-> <<>>, o |-> <<>>]
    ELSE [t |-> IF cc.vs[v].t = typeRawString THEN TypeString
                ELSE cc.vs[v].t,
          s |-> IF cc.vs[v].t = typeRawString
                THEN Bytes(unescapeStringBestEffort(buf, cc.vs[v].s).buf,
                           unescapeStringBestEffort(buf, cc.vs[v].s).s)
                ELSE IF cc.vs[v].t \in {TypeString, TypeNumber}
                THEN Bytes(buf, cc.vs[v].s)
                ELSE <<>>,
          a |-> IF cc.vs[v].t = TypeArray
                THEN [i \in 1 .. Len(cc.vs[v].a) |->
                         Shape(buf, cc, cc.vs[v].a[i])]
                ELSE <<>>,
          o |-> IF cc.vs[v].t = TypeObject
                THEN [i \in 1 .. cc.vs[v].o.len |->
                         [k |-> UnescapedKey(buf, cc.vs[v].o, i),
                          v |-> Shape(buf, cc, cc.vs[v].o.kvs[i].v)]]
                ELSE <<>>]

IndexKey(key) ==
    IF Atoi(key).err \/ Atoi(key).n < 0 THEN -1 ELSE Atoi(key).n

NullShape == [t |-> TypeNull, s |-> <<>>, a |-> <<>>, o |-> <<>>]

C18_DelRemovesOne ==
    [][(pc' = "updated" /\ aux'.op = "Del")
       => LET o   == Shape(b, c, aux'.v).o
              a   == Shape(b, c, aux'.v).a
              hit == {i \in 1 .. Len(o) : o[i].k = aux'.key}
              i   == IndexKey(aux'.key)
          IN  IF aux'.v # Nil /\ c.vs[aux'.v].t = TypeObject /\ hit # {}
              THEN /\ Shape(b', c', aux'.v).o = RemoveAt(o, Min(hit))
                   /\ Shape(b', c', aux'.v).a = a
              ELSE IF aux'.v # Nil /\ c.vs[aux'.v].t = TypeArray
                      /\ i >= 0 /\ i < Len(a)
              THEN /\ Shape(b', c', aux'.v).a = RemoveAt(a, i + 1)
                   /\ Shape(b', c', aux'.v).o = o
              ELSE Shape(b', c', ret.v) = Shape(b, c, ret.v)]_vars

\* Del("a") has removed the first of the two entries with the key a of
\* {"a":1,"a":[2],"c":3}: the array and the entry c are left.
C18_Witness ==
    /\ pc = "updated" /\ aux.op = "Del" /\ aux.n = 1 /\ aux.v = ret.v
    /\ aux.key = <<97>>
    /\ c.vs[ret.v].t = TypeObject
    /\ c.vs[ret.v].o.len = 2
    /\ Bytes(b, c.vs[ret.v].o.kvs[1].k) = <<97>>
    /\ c.vs[c.vs[ret.v].o.kvs[1].v].t = TypeArray
    /\ Bytes(b, c.vs[ret.v].o.kvs[2].k) = <<99>>

\* C19: after Set and Del operations on a parsed tree, what MarshalTo writes
\* parses again, into a tree that is visited as the updated tree is: the
\* same keys and values in the same order.
C19_UpdatedTreeRoundTrips ==
    (pc = "marshaled" /\ aux.op \in {"Set", "Del"}) =>
        LET p == Fresh(dst.out)
        IN  /\ ~p.panic /\ p.err = ErrNone /\ p.v # Nil
            /\ Shape(p.b, p.c, p.v) = Shape(b, c, ret.v)


\* Some step of the path has an index below -1.
BadIndex(path) == \E k \in 1 .. Len(path) : path[k].int /\ path[k].idx < -1

\* Every node that exists along the path from v is a container of the kind
\* the next step expects: an object for a key, an array for an index, which
\* is -1 or not negative.  The
\* entry of a key is the first one whose unescaped key equals it.
RECURSIVE PathFits(_, _, _, _)
PathFits(buf, cc, v, path) ==
    /\ v # Nil
    /\ path # <<>>
    /\ ~BadIndex(path)
    /\ IF path[1].int
       THEN /\ cc.vs[v].t = TypeArray
            /\ \/ Len(path) = 1
               \/ path[1].idx < 0
               \/ path[1].idx >= Len(cc.vs[v].a)
               \/ PathFits(buf, cc, cc.vs[v].a[path[1].idx + 1], Tail(path))
       ELSE /\ cc.vs[v].t = TypeObject
            /\ \/ Len(path) = 1
               \/ FirstMatch(buf, cc.vs[v].o, path[1].k) = Nil
               \/ PathFits(buf, cc, FirstMatch(buf, cc.vs[v].o, path[1].k),
                           Tail(path))

\* The path with each -1 step replaced by the index of the last element of
\* the array that the step is taken in.
RECURSIVE LastPath(_, _, _, _)
LastPath(buf, cc, v, path) ==
    IF path = <<>> \/ v = Nil THEN path
    ELSE IF path[1].int /\ cc.vs[v].t = TypeArray
    THEN LET i == IF path[1].idx = -1 THEN Len(cc.vs[v].a) - 1
                  ELSE path[1].idx
         IN  <<PathIdx(i)>> \o
                 IF i >= 0 /\ i < Len(cc.vs[v].a)
                 THEN LastPath(buf, cc, cc.vs[v].a[i + 1], Tail(path))
                 ELSE Tail(path)
    ELSE IF ~path[1].int /\ cc.vs[v].t = TypeObject
    THEN <<path[1]>> \o
            LastPath(buf, cc, FirstMatch(buf, cc.vs[v].o, path[1].k),
                     Tail(path))
    ELSE path

\* C20: after SetP(path, value) on a tree in which every existing node along
\* the path is a container of the kind the next step expects, GetP of the
\* path, each -1 replaced by the index of the last element, returns value,
\* and the node before every step is an array when the step is an integer
\* and an object otherwise.
C20_SetPThenGetP ==
    [][(/\ pc' = "updated" /\ aux'.op = "SetP"
        /\ PathFits(b, c, ret.v, aux'.path))
       => LET path == LastPath(b', c', ret.v, aux'.path)
          IN  /\ valueGetP(b', c', ret.v, path).v = aux'.value
              /\ \A k \in 1 .. Len(path) - 1 :
                    LET n == valueGetP(b', c', ret.v, SubSeq(path, 1, k)).v
                    IN  /\ n # Nil
                        /\ c'.vs[n].t = IF path[k + 1].int THEN TypeArray
                                        ELSE TypeObject]_vars

\* The node that the first k steps of path lead to from v, nil when there is
\* none.
NodeAt(buf, cc, v, path, k) ==
    IF k = 0 THEN v ELSE valueGetP(buf, cc, v, SubSeq(path, 1, k)).v

\* The length that the array in slot n had in the memory cc, 0 for an array
\* that was not there yet.
LenBefore(cc, n) == IF n <= Len(cc.vs) THEN Len(cc.vs[n].a) ELSE 0

\* C21: a step -1 that SetP takes in an array appends: the array is one
\* element longer than it was, the elements it had are at their indexes
\* with their values, and when the step is the last one of the path the new
\* element is the value.
C21_MinusOneAppends ==
    [][(pc' = "updated" /\ aux'.op = "SetP")
       => LET path == LastPath(b', c', ret.v, aux'.path)
          IN  \A k \in 1 .. Len(path) :
                LET n == NodeAt(b', c', ret.v, path, k - 1)
                IN  (/\ aux'.path[k] = PathIdx(-1)
                     /\ n # Nil /\ c'.vs[n].t = TypeArray)
                    => /\ Len(c'.vs[n].a) = LenBefore(c, n) + 1
                       /\ \A i \in 1 .. LenBefore(c, n) :
                             /\ c'.vs[n].a[i] = c.vs[n].a[i]
                             /\ Shape(b', c', c'.vs[n].a[i])
                                    = Shape(b, c, c.vs[n].a[i])
                       /\ k = Len(path)
                             => c'.vs[n].a[Len(c'.vs[n].a)] = aux'.value]_vars

\* SetP(Path{-1}, value) on [[1]] has made it [[1],value].
C21_Witness ==
    /\ pc = "updated" /\ aux.op = "SetP" /\ aux.n = 1
    /\ aux.path = <<PathIdx(-1)>>
    /\ input = <<91, 91, 49, 93, 93>>
    /\ Len(c.vs[ret.v].a) = 2
    /\ c.vs[c.vs[ret.v].a[1]].t = TypeArray
    /\ c.vs[ret.v].a[2] = aux.value

\* Some step of the path cannot be applied from the node v on: the step is
\* taken in a value that is neither an object nor an array, it is a key in
\* an array or an index in an object, or it is an index below -1.  The entry
\* of a key is the first one whose unescaped key equals it; a node that is
\* not there yet is made of the kind that the step expects.
RECURSIVE StepFails(_, _, _, _)
StepFails(buf, cc, v, path) ==
    IF path = <<>> THEN FALSE
    ELSE IF v = Nil THEN BadIndex(path)
    ELSE IF cc.vs[v].t = TypeObject
    THEN \/ path[1].int
         \/ StepFails(buf, cc, FirstMatch(buf, cc.vs[v].o, path[1].k),
                      Tail(path))
    ELSE IF cc.vs[v].t = TypeArray
    THEN \/ ~path[1].int
         \/ path[1].idx < -1
         \/ IF path[1].idx = -1 \/ path[1].idx >= Len(cc.vs[v].a)
            THEN BadIndex(Tail(path))
            ELSE StepFails(buf, cc, cc.vs[v].a[path[1].idx + 1], Tail(path))
    ELSE TRUE

\* C22: when some step of the path cannot be applied, SetP does not panic
\* and leaves the whole tree as it was.
C22_SetPNoOpOnBadStep ==
    [][(/\ aux'.op = "SetP" /\ pc' \in {"updated", "panicked"}
        /\ StepFails(b, c, ret.v, aux'.path))
       => /\ pc' # "panicked"
          /\ Shape(b', c', ret.v) = Shape(b, c, ret.v)]_vars

\* C23: the shared values are never written: whatever the goroutines parse,
\* read and set, each with its own parser, the five shared values are as
\* they were when the program started.
C23_SharedValuesNeverWritten ==
    SubSeq(c.vs, 1, Len(SharedValues)) = SharedValues

\* C24: the object that Parser.NewObject(m) returns has exactly the pairs
\* of m as its entries, as many as m has, whatever the parser was used for
\* before the call.
C24_NewObjectHoldsMap ==
    (pc = "built" /\ aux.op = "NewObject") =>
        /\ c.vs[ret.v].t = TypeObject
        /\ c.vs[ret.v].o.len = Len(aux.m)
        /\ \A i \in 1 .. Len(aux.m) :
              /\ Bytes(b, c.vs[ret.v].o.kvs[i].k) = aux.m[i].k
              /\ c.vs[ret.v].o.kvs[i].v = aux.m[i].v

\* C25: an instance that has been used maxReuse times is not put back into
\* the pool, so every instance in the pool, and every instance that Get
\* hands out, has been used fewer than maxReuse times.
C25_UsedUpNotPooled ==
    /\ \A i \in 1 .. Len(old) : old[i].n < MaxReuse
    /\ (pc = "held" /\ aux.op = "Get") => aux.n < MaxReuse

\* The values that the keys path leads to from v: at each key of an object
\* any entry whose unescaped key equals it, at each key of an array the
\* element at the index that the key denotes.
RECURSIVE Resolved(_, _, _, _)
Resolved(buf, cc, v, keys) ==
    IF v = Nil THEN {}
    ELSE IF keys = <<>> THEN {v}
    ELSE IF cc.vs[v].t = TypeObject
    THEN UNION {Resolved(buf, cc, cc.vs[v].o.kvs[i].v, Tail(keys)) :
                  i \in {j \in 1 .. cc.vs[v].o.len :
                            UnescapedKey(buf, cc.vs[v].o, j) = keys[1]}}
    ELSE IF cc.vs[v].t = TypeArray
    THEN IF IndexKey(keys[1]) < 0 \/ IndexKey(keys[1]) >= Len(cc.vs[v].a)
         THEN {}
         ELSE Resolved(buf, cc, cc.vs[v].a[IndexKey(keys[1]) + 1], Tail(keys))
    ELSE {}

\* The type of the value in slot v as a caller sees it.
SeenType(cc, v) ==
    IF cc.vs[v].t = typeRawString THEN TypeString ELSE cc.vs[v].t

\* C26: a typed getter returns the zero value of its kind, 0, false or
\* nil, when the receiver is nil, when the keys path leads to no value, and
\* when no value that it leads to has the type of the getter.
C26_GettersReturnZero ==
    [][(/\ pc' = "read" /\ aux'.op \in GetterKinds
        /\ \A n \in Resolved(b, c, aux'.v, aux'.keys) :
              SeenType(c, n) # GetterType(aux'.op))
       => aux'.val = GetterZero(aux'.op)]_vars

\* GetInt("bar") has returned 0 for the string "433", and GetInt("foo",
\* "bar") for a path that leads through a number.
C26_Witness ==
    /\ pc = "read" /\ aux.op = "GetInt" /\ aux.v = ret.v /\ ret.v # Nil
    /\ aux.keys = <<(<<98, 97, 114>>)>>
    /\ Resolved(b, c, ret.v, aux.keys) # {}
    /\ aux.val = 0

\* C27: at every step of the unescaping of a string in place, the bytes
\* written are at most as many as the bytes of the string consumed, so
\* the result is at most as long as the string, and every byte of the
\* buffer outside the string is what it was before.
C27_UnescapeStaysInside ==
    pc \in {"escape", "copy", "done"} =>
        /\ aux.w <= aux.r
        /\ aux.r <= aux.end
        /\ Len(b) = Len(old.b)
        /\ \A i \in 0 .. Len(b) - 1 :
              (i < aux.off \/ i >= aux.end) => At(b, i) = At(old.b, i)
        /\ pc = "done" =>
              Slice(b, aux.off, aux.w)
                = Bytes(unescapeStringBestEffort(old.b,
                            View(aux.off, aux.end - aux.off)).buf,
                        unescapeStringBestEffort(old.b,
                            View(aux.off, aux.end - aux.off)).s)

\* A string with an escape sequence that is kept as it is and one that is
\* decoded has been unescaped: the result is shorter than the string.
C27_Witness ==
    /\ pc = "done"
    /\ aux.w < aux.end
    /\ b # old.b
    /\ \E i \in aux.off .. aux.w - 1 : At(b, i) = Ch.backslash

\* The step leaves every decoded string and every decoded key as it is.
StaysDecoded ==
    \A v \in 1 .. c.len :
      /\ c.vs[v].t = TypeString =>
            /\ c'.vs[v].t = TypeString
            /\ Bytes(b', c'.vs[v].s) = Bytes(b, c.vs[v].s)
      /\ (c.vs[v].t = TypeObject /\ c.vs[v].o.keysUnescaped) =>
            /\ c'.vs[v].t = TypeObject
            /\ c'.vs[v].o.keysUnescaped
            /\ c'.vs[v].o.len = c.vs[v].o.len
            /\ \A i \in 1 .. c.vs[v].o.len :
                  Bytes(b', c'.vs[v].o.kvs[i].k)
                    = Bytes(b, c.vs[v].o.kvs[i].k)

\* C28: once a string value is decoded, and once the keys of an object
\* are, no call of Type, Get, Visit or MarshalTo on any value of the tree
\* changes the decoded bytes, or makes the value or the object one that is
\* to be decoded again.
C28_UnescapedOnce ==
    [][(pc \in {"parsed", "read"}) => StaysDecoded]_vars

\* Type has been called on a string whose decoded text, a backslash and
\* an n, is one that a second decoding would turn into a line feed.
C28_Witness ==
    /\ pc = "read" /\ aux.op = "Type"
    /\ c.vs[aux.v].t = TypeString
    /\ Bytes(b, c.vs[aux.v].s) = <<Ch.backslash, Ch.n>>

\* C29: after Parse of an input of L bytes, with or without an error, on a
\* new parser or on one that has parsed before, at most L slots of the
\* cache are in use.
C29_SlotsAtMostBytes ==
    pc \in {"parsed", "read", "reparsed"} => c.len <= Len(input)

\* Parse has failed on an input that took one slot for each of its bytes,
\* and more than one.
C29_Witness ==
    /\ pc = "parsed" /\ ret.err # ErrNone
    /\ c.len = Len(input) /\ c.len >= 2

\* C30: every result that GetString or GetBytes has returned holds the
\* bytes it held when it was returned, whatever the parsers of the pool
\* have parsed since.
C30_ResultsAreCopies ==
    \A x \in dst : ResultBytes(x.res) = x.was

\* A result with bytes has been returned, and the parser that produced it
\* has since parsed another document in a call by the other goroutine.
C30_Witness ==
    \E x \in dst, g \in Goroutines :
        /\ x.was = <<120, 121>>
        /\ g # x.by
        /\ pc[g] \in {"read", "put"}
        /\ ret[g].err = ErrNone
        /\ toks = 1
        /\ aux[g].data # <<123, 34, 97, 34, 58, 34, 120, 121, 34, 125>>

====
